---- MODULE Spec2Model ----
(***************************************************************************)
(* A model of the request-handling pipeline of tinkerbell/dhcp: the        *)
(* reservation handler (handler/reservation/handler.go), the option and    *)
(* chainload code it calls (the Server drafts of option.go) and the older  *)
(* per-message-type draft of the dispatcher (handleDiscover/handleRequest).*)
(*                                                                         *)
(* Representation.                                                         *)
(*   - Go strings are TLA+ strings; prefixes, parsing and formatting are   *)
(*     computed character by character.                                    *)
(*   - A net.IP / netaddr.IP is a tuple of four octets; the nil slice and  *)
(*     the zero netaddr.IP are the empty tuple.                            *)
(*   - A pointer that may be nil (a URL) is a tuple of length 0 or 1.      *)
(*   - dhcpv4.Options (a map from code to value) is a function whose       *)
(*     domain is the set of option codes present.                          *)
(***************************************************************************)
EXTENDS Integers, Sequences, FiniteSets, TLC

(***************************************************************************)
(* Strings                                                                 *)
(***************************************************************************)

\* strings.HasPrefix
HasPrefix(s, prefix) ==
    /\ Len(s) >= Len(prefix)
    /\ SubSeq(s, 1, Len(prefix)) = prefix

CharAt(s, i) == SubSeq(s, i, i)

Digits == {"0", "1", "2", "3", "4", "5", "6", "7", "8", "9"}

DigitVal(c) ==
    CASE c = "0" -> 0 [] c = "1" -> 1 [] c = "2" -> 2 [] c = "3" -> 3
      [] c = "4" -> 4 [] c = "5" -> 5 [] c = "6" -> 6 [] c = "7" -> 7
      [] c = "8" -> 8 [] c = "9" -> 9

HexDigit(n) == CharAt("0123456789abcdef", n + 1)

\* hex.EncodeToString of a byte slice (TraceID.String, SpanID.String,
\* TraceFlags.String)
RECURSIVE HexString(_)
HexString(bytes) ==
    IF bytes = <<>> THEN ""
    ELSE HexDigit(Head(bytes) \div 16) \o HexDigit(Head(bytes) % 16)
             \o HexString(Tail(bytes))

(***************************************************************************)
(* IP addresses                                                            *)
(***************************************************************************)

NilIP == <<>>
IPv4zero == <<0, 0, 0, 0>>
IPv4bcast == <<255, 255, 255, 255>>

\* netaddr.IP.String / net.IP.String for an IPv4 address
IPString(ip) ==
    ToString(ip[1]) \o "." \o ToString(ip[2]) \o "." \o ToString(ip[3])
        \o "." \o ToString(ip[4])

\* The dotted-quad scanner of net.ParseIP.  i is the position read next,
\* cur the value of the field being read (-1: no digit yet), nd its number
\* of digits and acc the fields completed so far.  Returns NilIP when the
\* text is not exactly four decimal fields in 0..255 without leading zeros.
RECURSIVE parseIPv4(_, _, _, _, _)
parseIPv4(s, i, cur, nd, acc) ==
    IF i > Len(s)
    THEN IF cur # -1 /\ Len(acc) = 3 THEN Append(acc, cur) ELSE NilIP
    ELSE LET c == CharAt(s, i) IN
         IF c \in Digits
         THEN IF nd >= 1 /\ cur = 0 THEN NilIP
              ELSE LET v == IF cur = -1 THEN DigitVal(c)
                            ELSE cur * 10 + DigitVal(c)
                   IN IF v > 255 THEN NilIP
                      ELSE parseIPv4(s, i + 1, v, nd + 1, acc)
         ELSE IF c = "." /\ cur # -1 /\ Len(acc) < 3
              THEN parseIPv4(s, i + 1, -1, 0, Append(acc, cur))
              ELSE NilIP

\* net.ParseIP restricted to the texts a URL authority can hold: an IPv6
\* literal is bracketed there, so only a bare dotted quad parses.
ParseIP(s) == parseIPv4(s, 1, -1, 0, <<>>)

(***************************************************************************)
(* URLs                                                                    *)
(***************************************************************************)

NilURL == <<>>

URL(scheme, host, path) == <<[Scheme |-> scheme, Host |-> host, Path |-> path]>>

\* URL.String for a URL made of scheme, authority and path.
\* Host is Go's URL.Host: "host" or "host:port".
URLString(u) ==
    LET scheme == IF u.Scheme # "" THEN u.Scheme \o ":" ELSE ""
        auth == IF (u.Scheme # "" \/ u.Host # "") /\ (u.Host # "" \/ u.Path # "")
                THEN "//" \o u.Host ELSE ""
        path == IF u.Path # "" /\ CharAt(u.Path, 1) # "/" /\ u.Host # ""
                THEN "/" \o u.Path ELSE u.Path
    IN scheme \o auth \o path

(***************************************************************************)
(* DHCP constants                                                          *)
(***************************************************************************)

MessageTypeNone == 0
MessageTypeDiscover == 1
MessageTypeOffer == 2
MessageTypeRequest == 3
MessageTypeDecline == 4
MessageTypeAck == 5
MessageTypeRelease == 7
MessageTypeInform == 8

OptionSubnetMask == 1
OptionRouter == 3
OptionDomainNameServer == 6
OptionHostName == 12
OptionDomainName == 15
OptionBroadcastAddress == 28
OptionNTPServers == 42
OptionVendorSpecificInformation == 43
OptionIPAddressLeaseTime == 51
OptionDHCPMessageType == 53
OptionServerIdentifier == 54
OptionClassIdentifier == 60
OptionUserClassInformation == 77
OptionClientSystemArchitectureType == 93
OptionClientNetworkInterfaceIdentifier == 94
OptionClientMachineIdentifier == 97
OptionDNSDomainSearchList == 119

OpcodeBootRequest == 1
OpcodeBootReply == 2

pxeClient == "PXEClient"
httpClient == "HTTPClient"

IPXE == "iPXE"
Tinkerbell == "Tinkerbell"

\* RFC 4578 architecture codes (iana.Arch) used below
INTEL_X86PC == 0
NEC_PC98 == 1
EFI_ITANIUM == 2
DEC_ALPHA == 3
ARC_X86 == 4
INTEL_LEAN_CLIENT == 5
EFI_IA32 == 6
EFI_X86_64 == 7
EFI_XSCALE == 8
EFI_BC == 9
EFI_ARM32 == 10
EFI_ARM64 == 11
EFI_X86_HTTP == 15
EFI_X86_64_HTTP == 16
EFI_ARM32_HTTP == 18
EFI_ARM64_HTTP == 19
UBOOT_ARM64 == 22
ArchRpiboot == 41
ArchUnknown == 255

\* ArchToBootFile maps supported hardware PXE architectures types to iPXE
\* binary files.
ArchToBootFile ==
    [a \in {INTEL_X86PC, NEC_PC98, EFI_ITANIUM, DEC_ALPHA, ARC_X86,
            INTEL_LEAN_CLIENT} |-> "undionly.kpxe"]
    @@ [a \in {EFI_IA32, EFI_X86_64, EFI_XSCALE, EFI_BC, EFI_X86_HTTP,
               EFI_X86_64_HTTP} |-> "ipxe.efi"]
    @@ [a \in {EFI_ARM32, EFI_ARM64, EFI_ARM32_HTTP, EFI_ARM64_HTTP,
               ArchRpiboot} |-> "snp.efi"]

(***************************************************************************)
(* Packets (dhcpv4.DHCPv4)                                                 *)
(***************************************************************************)

NoOptions == <<>>

\* Options.Has
Has(opts, code) == code \in DOMAIN opts

\* string(pkt.GetOneOption(code)): the empty string when the option is absent
GetString(opts, code) == IF Has(opts, code) THEN opts[code] ELSE ""

\* pkt.GetOneOption(code) for a byte or list valued option: nil when absent
GetBytes(opts, code) == IF Has(opts, code) THEN opts[code] ELSE <<>>

\* d.UpdateOption
UpdateOption(opts, code, value) == (code :> value) @@ opts

\* pkt.MessageType(): MessageTypeNone when option 53 is absent
MessageType(pkt) ==
    IF Has(pkt.Options, OptionDHCPMessageType)
    THEN pkt.Options[OptionDHCPMessageType] ELSE MessageTypeNone

\* pkt.ClientArch(): the list of architecture codes of option 93
ClientArch(pkt) == GetBytes(pkt.Options, OptionClientSystemArchitectureType)

(***************************************************************************)
(* Netboot classifier                                                      *)
(***************************************************************************)

\* isNetbootClient without the check of option 94
isNetbootClientNo94(pkt) ==
    LET opt60 == GetString(pkt.Options, OptionClassIdentifier)
        guid == GetBytes(pkt.Options, OptionClientMachineIdentifier)
    IN  /\ MessageType(pkt) \in {MessageTypeDiscover, MessageTypeRequest}
        /\ Has(pkt.Options, OptionClassIdentifier)
        /\ HasPrefix(opt60, pxeClient) \/ HasPrefix(opt60, httpClient)
        /\ Has(pkt.Options, OptionClientSystemArchitectureType)
        /\ \/ Len(guid) = 0
           \/ Len(guid) = 17 /\ guid[1] = 0

\* isNetbootClient returns true if the client is a valid netboot client.
isNetbootClient(pkt) ==
    LET opt60 == GetString(pkt.Options, OptionClassIdentifier)
        guid == GetBytes(pkt.Options, OptionClientMachineIdentifier)
    IN  IF MessageType(pkt) # MessageTypeDiscover
           /\ MessageType(pkt) # MessageTypeRequest THEN FALSE
        ELSE IF ~Has(pkt.Options, OptionClassIdentifier) THEN FALSE
        ELSE IF ~HasPrefix(opt60, pxeClient) /\ ~HasPrefix(opt60, httpClient)
             THEN FALSE
        ELSE IF ~Has(pkt.Options, OptionClientSystemArchitectureType)
             THEN FALSE
        ELSE IF ~Has(pkt.Options, OptionClientNetworkInterfaceIdentifier)
             THEN FALSE
        ELSE CASE Len(guid) = 0 -> TRUE
               [] Len(guid) = 17 -> guid[1] = 0
               [] OTHER -> FALSE

(***************************************************************************)
(* Chainload decision                                                      *)
(***************************************************************************)

\* The first element of option 93 that iana.Arch.String names, else 255.
\* named is the set of codes the library has a name for.
RECURSIVE firstKnownArch(_, _)
firstKnownArch(fwt, named) ==
    IF fwt = <<>> THEN ArchUnknown
    ELSE IF Head(fwt) \in named THEN Head(fwt)
    ELSE firstKnownArch(Tail(fwt), named)

\* arch returns the arch of the client pulled from DHCP option 93.
arch(pkt, named) == firstKnownArch(ClientArch(pkt), named)

\* trace.SpanContext.IsSampled
IsSampled(span) == span.TraceFlags % 2 = 1

\* binaryTpFromContext: the 26 byte traceparent of the span in ctx
binaryTpFromContext(span) ==
    <<0>> \o span.TraceID \o span.SpanID
          \o <<IF IsSampled(span) THEN 1 ELSE 0>>

\* TraceparentFromContext appending the trace flags byte as it is
TraceparentFromContextRawFlags(sc) ==
    <<0>> \o sc.TraceID \o sc.SpanID \o <<sc.TraceFlags>>

\* otel.TraceparentFromContext: the version byte 0, the 16 bytes of the
\* trace id, the 8 bytes of the span id and 1 or 0 for a sampled or
\* unsampled span context sc
TraceparentFromContext(sc) ==
    <<0>> \o sc.TraceID \o sc.SpanID
          \o <<IF IsSampled(sc) THEN 1 ELSE 0>>

\* otelBin without the trace flags at the end of the suffix
otelBinNoFlags(s, span, bin) ==
    IF s.OTELEnabled
    THEN bin \o "-00-" \o HexString(span.TraceID) \o "-"
             \o HexString(span.SpanID)
    ELSE bin

\* The binary name with the traceparent appended when OTEL is enabled
otelBin(s, span, bin) ==
    IF s.OTELEnabled
    THEN bin \o "-00-" \o HexString(span.TraceID) \o "-"
             \o HexString(span.SpanID) \o "-"
             \o HexString(<<span.TraceFlags>>)
    ELSE bin

\* bootfileAndNextServer with the option 60 case tried before the user
\* class case
bootfileAndNextServerHTTPFirst(s, span, uClass, opt60, bin0, tftp, ipxe, iscript) ==
    LET bin == IF s.OTELEnabled
               THEN bin0 \o "-00-" \o HexString(span.TraceID) \o "-"
                        \o HexString(span.SpanID) \o "-"
                        \o HexString(<<span.TraceFlags>>)
               ELSE bin0
        r1 == [bootfile |-> IF iscript # NilURL THEN URLString(iscript[1])
                            ELSE "/no-ipxe-script-defined",
               nextServer |-> NilIP]
        r2 == [bootfile |-> URLString(ipxe[1]) \o "/" \o bin,
               nextServer |-> IF ParseIP(ipxe[1].Host) = NilIP THEN IPv4zero
                              ELSE ParseIP(ipxe[1].Host)]
        r3 == [bootfile |-> "tftp://" \o IPString(tftp.IP) \o ":"
                                \o ToString(tftp.Port) \o "/" \o bin,
               nextServer |-> tftp.IP]
        r4 == [bootfile |-> bin, nextServer |-> tftp.IP]
        c1 == uClass = Tinkerbell \/ (s.UserClass # "" /\ uClass = s.UserClass)
        c2 == opt60 = httpClient
        c3 == uClass = IPXE
    IN  IF c2 THEN r2 ELSE IF c1 THEN r1 ELSE IF c3 THEN r3 ELSE r4

\* bootfileAndNextServer with the script case naming the TFTP server as
\* next server
bootfileAndNextServerScriptFromTFTP(s, span, uClass, opt60, bin0, tftp, ipxe, iscript) ==
    LET bin == IF s.OTELEnabled
               THEN bin0 \o "-00-" \o HexString(span.TraceID) \o "-"
                        \o HexString(span.SpanID) \o "-"
                        \o HexString(<<span.TraceFlags>>)
               ELSE bin0
        r1 == [bootfile |-> IF iscript # NilURL THEN URLString(iscript[1])
                            ELSE "/no-ipxe-script-defined",
               nextServer |-> tftp.IP]
        r2 == [bootfile |-> URLString(ipxe[1]) \o "/" \o bin,
               nextServer |-> IF ParseIP(ipxe[1].Host) = NilIP THEN IPv4zero
                              ELSE ParseIP(ipxe[1].Host)]
        r3 == [bootfile |-> "tftp://" \o IPString(tftp.IP) \o ":"
                                \o ToString(tftp.Port) \o "/" \o bin,
               nextServer |-> tftp.IP]
        r4 == [bootfile |-> bin, nextServer |-> tftp.IP]
        c1 == uClass = Tinkerbell \/ (s.UserClass # "" /\ uClass = s.UserClass)
        c2 == opt60 = httpClient
        c3 == uClass = IPXE
    IN  IF c1 THEN r1 ELSE IF c2 THEN r2 ELSE IF c3 THEN r3 ELSE r4

\* bootfileAndNextServer without the 0.0.0.0 fallback of the HTTP case
bootfileAndNextServerNoFallback(s, span, uClass, opt60, bin0, tftp, ipxe, iscript) ==
    LET bin == IF s.OTELEnabled
               THEN bin0 \o "-00-" \o HexString(span.TraceID) \o "-"
                        \o HexString(span.SpanID) \o "-"
                        \o HexString(<<span.TraceFlags>>)
               ELSE bin0
        r1 == [bootfile |-> IF iscript # NilURL THEN URLString(iscript[1])
                            ELSE "/no-ipxe-script-defined",
               nextServer |-> NilIP]
        r2 == [bootfile |-> URLString(ipxe[1]) \o "/" \o bin,
               nextServer |-> ParseIP(ipxe[1].Host)]
        r3 == [bootfile |-> "tftp://" \o IPString(tftp.IP) \o ":"
                                \o ToString(tftp.Port) \o "/" \o bin,
               nextServer |-> tftp.IP]
        r4 == [bootfile |-> bin, nextServer |-> tftp.IP]
        c1 == uClass = Tinkerbell \/ (s.UserClass # "" /\ uClass = s.UserClass)
        c2 == opt60 = httpClient
        c3 == uClass = IPXE
    IN  IF c1 THEN r1 ELSE IF c2 THEN r2 ELSE IF c3 THEN r3 ELSE r4

\* bootfileAndNextServer with the iPXE case returning the bare binary
bootfileAndNextServerBareIPXE(s, span, uClass, opt60, bin0, tftp, ipxe, iscript) ==
    LET bin == IF s.OTELEnabled
               THEN bin0 \o "-00-" \o HexString(span.TraceID) \o "-"
                        \o HexString(span.SpanID) \o "-"
                        \o HexString(<<span.TraceFlags>>)
               ELSE bin0
        r1 == [bootfile |-> IF iscript # NilURL THEN URLString(iscript[1])
                            ELSE "/no-ipxe-script-defined",
               nextServer |-> NilIP]
        r2 == [bootfile |-> URLString(ipxe[1]) \o "/" \o bin,
               nextServer |-> IF ParseIP(ipxe[1].Host) = NilIP THEN IPv4zero
                              ELSE ParseIP(ipxe[1].Host)]
        r3 == [bootfile |-> bin,
               nextServer |-> tftp.IP]
        r4 == [bootfile |-> bin, nextServer |-> tftp.IP]
        c1 == uClass = Tinkerbell \/ (s.UserClass # "" /\ uClass = s.UserClass)
        c2 == opt60 = httpClient
        c3 == uClass = IPXE
    IN  IF c1 THEN r1 ELSE IF c2 THEN r2 ELSE IF c3 THEN r3 ELSE r4

\* bootfileAndNextServer returns the bootfile (string) and next server
\* (net.IP).  The four cases of the switch are tried in order.
bootfileAndNextServer(s, span, uClass, opt60, bin0, tftp, ipxe, iscript) ==
    LET bin == otelBin(s, span, bin0) IN
    IF uClass = Tinkerbell \/ (s.UserClass # "" /\ uClass = s.UserClass)
    THEN [bootfile |-> IF iscript # NilURL THEN URLString(iscript[1])
                       ELSE "/no-ipxe-script-defined",
          nextServer |-> NilIP]
    ELSE IF opt60 = httpClient
    THEN [bootfile |-> URLString(ipxe[1]) \o "/" \o bin,
          nextServer |-> IF ParseIP(ipxe[1].Host) = NilIP THEN IPv4zero
                         ELSE ParseIP(ipxe[1].Host)]
    ELSE IF uClass = IPXE
    THEN [bootfile |-> "tftp://" \o IPString(tftp.IP) \o ":"
                           \o ToString(tftp.Port) \o "/" \o bin,
          nextServer |-> tftp.IP]
    ELSE [bootfile |-> bin, nextServer |-> tftp.IP]

\* setNetworkBootOpts without the bootfile and next server set before the
\* netboot permission is looked at
setNetworkBootOptsNoDefaults(s, span, m, n, d) ==
    LET isHTTP == Has(m.Options, OptionClassIdentifier)
                    /\ HasPrefix(m.Options[OptionClassIdentifier], httpClient)
        opt60 == IF isHTTP THEN httpClient ELSE ""
        d1 == [d EXCEPT !.Options =
                   IF isHTTP
                   THEN UpdateOption(@, OptionClassIdentifier, httpClient)
                   ELSE @]
        a == arch(m, s.ArchNamed)
    IN  IF ~n.AllowNetboot THEN d1
        ELSE IF a \notin DOMAIN ArchToBootFile THEN d1
        ELSE LET uClass == GetString(m.Options, OptionUserClassInformation)
                 ipxeScript == IF n.IPXEScriptURL # NilURL
                               THEN n.IPXEScriptURL ELSE s.IPXEScriptURL
                 r == bootfileAndNextServer(s, span, uClass, opt60,
                          ArchToBootFile[a], s.IPXEBinServerTFTP,
                          s.IPXEBinServerHTTP, ipxeScript)
             IN [d1 EXCEPT
                   !.BootFileName = r.bootfile,
                   !.ServerIPAddr = r.nextServer,
                   !.Options = UpdateOption(@, OptionVendorSpecificInformation,
                                 <<6, 1, 8, 69, 26>>
                                     \o binaryTpFromContext(span))]

\* setNetworkBootOpts with option 43 holding sub-option 69 alone
setNetworkBootOptsNoDiscoveryControl(s, span, m, n, d) ==
    LET isHTTP == Has(m.Options, OptionClassIdentifier)
                    /\ HasPrefix(m.Options[OptionClassIdentifier], httpClient)
        opt60 == IF isHTTP THEN httpClient ELSE ""
        d1 == [d EXCEPT !.Options =
                   IF isHTTP
                   THEN UpdateOption(@, OptionClassIdentifier, httpClient)
                   ELSE @,
                 !.BootFileName = "/netboot-not-allowed",
                 !.ServerIPAddr = IPv4zero]
        a == arch(m, s.ArchNamed)
    IN  IF ~n.AllowNetboot THEN d1
        ELSE IF a \notin DOMAIN ArchToBootFile THEN d1
        ELSE LET uClass == GetString(m.Options, OptionUserClassInformation)
                 ipxeScript == IF n.IPXEScriptURL # NilURL
                               THEN n.IPXEScriptURL ELSE s.IPXEScriptURL
                 r == bootfileAndNextServer(s, span, uClass, opt60,
                          ArchToBootFile[a], s.IPXEBinServerTFTP,
                          s.IPXEBinServerHTTP, ipxeScript)
             IN [d1 EXCEPT
                   !.BootFileName = r.bootfile,
                   !.ServerIPAddr = r.nextServer,
                   !.Options = UpdateOption(@, OptionVendorSpecificInformation,
                                 <<69, 26>>
                                     \o binaryTpFromContext(span))]

\* setNetworkBootOpts echoing the request's option 60 as it was received
setNetworkBootOptsEchoRequest(s, span, m, n, d) ==
    LET isHTTP == Has(m.Options, OptionClassIdentifier)
                    /\ HasPrefix(m.Options[OptionClassIdentifier], httpClient)
        opt60 == IF isHTTP THEN httpClient ELSE ""
        d1 == [d EXCEPT !.Options =
                   IF isHTTP
                   THEN UpdateOption(@, OptionClassIdentifier,
                                     m.Options[OptionClassIdentifier])
                   ELSE @,
                 !.BootFileName = "/netboot-not-allowed",
                 !.ServerIPAddr = IPv4zero]
        a == arch(m, s.ArchNamed)
    IN  IF ~n.AllowNetboot THEN d1
        ELSE IF a \notin DOMAIN ArchToBootFile THEN d1
        ELSE LET uClass == GetString(m.Options, OptionUserClassInformation)
                 ipxeScript == IF n.IPXEScriptURL # NilURL
                               THEN n.IPXEScriptURL ELSE s.IPXEScriptURL
                 r == bootfileAndNextServer(s, span, uClass, opt60,
                          ArchToBootFile[a], s.IPXEBinServerTFTP,
                          s.IPXEBinServerHTTP, ipxeScript)
             IN [d1 EXCEPT
                   !.BootFileName = r.bootfile,
                   !.ServerIPAddr = r.nextServer,
                   !.Options = UpdateOption(@, OptionVendorSpecificInformation,
                                 <<6, 1, 8, 69, 26>>
                                     \o binaryTpFromContext(span))]

\* setNetworkBootOpts leaving the reply's ServerIPAddr as it was when the
\* rule chosen returns no next server
setNetworkBootOptsKeepServerIP(s, span, m, n, d) ==
    LET isHTTP == Has(m.Options, OptionClassIdentifier)
                    /\ HasPrefix(m.Options[OptionClassIdentifier], httpClient)
        opt60 == IF isHTTP THEN httpClient ELSE ""
        d1 == [d EXCEPT !.Options =
                   IF isHTTP
                   THEN UpdateOption(@, OptionClassIdentifier, httpClient)
                   ELSE @,
                 !.BootFileName = "/netboot-not-allowed",
                 !.ServerIPAddr = IPv4zero]
        a == arch(m, s.ArchNamed)
    IN  IF ~n.AllowNetboot THEN d1
        ELSE IF a \notin DOMAIN ArchToBootFile THEN d1
        ELSE LET uClass == GetString(m.Options, OptionUserClassInformation)
                 ipxeScript == IF n.IPXEScriptURL # NilURL
                               THEN n.IPXEScriptURL ELSE s.IPXEScriptURL
                 r == bootfileAndNextServer(s, span, uClass, opt60,
                          ArchToBootFile[a], s.IPXEBinServerTFTP,
                          s.IPXEBinServerHTTP, ipxeScript)
             IN [d1 EXCEPT
                   !.BootFileName = r.bootfile,
                   !.ServerIPAddr = IF r.nextServer = NilIP THEN d.ServerIPAddr
                                     ELSE r.nextServer,
                   !.Options = UpdateOption(@, OptionVendorSpecificInformation,
                                 <<6, 1, 8, 69, 26>>
                                     \o binaryTpFromContext(span))]

\* The modifier returned by setNetworkBootOpts, applied to the reply d.
\* m is the received packet, n the netboot record of the backend.
setNetworkBootOpts(s, span, m, n, d) ==
    LET isHTTP == Has(m.Options, OptionClassIdentifier)
                    /\ HasPrefix(m.Options[OptionClassIdentifier], httpClient)
        opt60 == IF isHTTP THEN httpClient ELSE ""
        d1 == [d EXCEPT !.Options =
                   IF isHTTP
                   THEN UpdateOption(@, OptionClassIdentifier, httpClient)
                   ELSE @,
                 !.BootFileName = "/netboot-not-allowed",
                 !.ServerIPAddr = IPv4zero]
        a == arch(m, s.ArchNamed)
    IN  IF ~n.AllowNetboot THEN d1
        ELSE IF a \notin DOMAIN ArchToBootFile THEN d1
        ELSE LET uClass == GetString(m.Options, OptionUserClassInformation)
                 ipxeScript == IF n.IPXEScriptURL # NilURL
                               THEN n.IPXEScriptURL ELSE s.IPXEScriptURL
                 r == bootfileAndNextServer(s, span, uClass, opt60,
                          ArchToBootFile[a], s.IPXEBinServerTFTP,
                          s.IPXEBinServerHTTP, ipxeScript)
             IN [d1 EXCEPT
                   !.BootFileName = r.bootfile,
                   !.ServerIPAddr = r.nextServer,
                   !.Options = UpdateOption(@, OptionVendorSpecificInformation,
                                 <<6, 1, 8, 69, 26>>
                                     \o binaryTpFromContext(span))]

(***************************************************************************)
(* Option builder and reply construction                                   *)
(***************************************************************************)

NilReply == <<>>

\* The modifiers of setDHCPOpts applied to the reply: lease time and yiaddr
\* always, every other option only when the record's field is set.
setDHCPOpts(d, reply) ==
    LET o1 == UpdateOption(reply.Options, OptionIPAddressLeaseTime,
                           d.LeaseTime)
        o2 == IF Len(d.NameServers) > 0
              THEN UpdateOption(o1, OptionDomainNameServer, d.NameServers)
              ELSE o1
        o3 == IF Len(d.DomainSearch) > 0
              THEN UpdateOption(o2, OptionDNSDomainSearchList, d.DomainSearch)
              ELSE o2
        o4 == IF Len(d.NTPServers) > 0
              THEN UpdateOption(o3, OptionNTPServers, d.NTPServers) ELSE o3
        o5 == IF d.BroadcastAddress # NilIP
              THEN UpdateOption(o4, OptionBroadcastAddress, d.BroadcastAddress)
              ELSE o4
        o6 == IF d.DomainName # ""
              THEN UpdateOption(o5, OptionDomainName, d.DomainName) ELSE o5
        o7 == IF d.Hostname # ""
              THEN UpdateOption(o6, OptionHostName, d.Hostname) ELSE o6
        o8 == IF Len(d.SubnetMask) > 0
              THEN UpdateOption(o7, OptionSubnetMask, d.SubnetMask) ELSE o7
        o9 == IF d.DefaultGateway # NilIP
              THEN UpdateOption(o8, OptionRouter, <<d.DefaultGateway>>)
              ELSE o8
    IN [reply EXCEPT !.Options = o9, !.YourIPAddr = d.IPAddress]

\* dhcpv4.NewReplyFromRequest before the caller's modifiers: a boot reply
\* for the request's client with zeroed addresses and no options.
NewReplyFromRequest(pkt) ==
    [OpCode |-> OpcodeBootReply,
     ClientHWAddr |-> pkt.ClientHWAddr,
     ClientIPAddr |-> IPv4zero,
     YourIPAddr |-> IPv4zero,
     ServerIPAddr |-> IPv4zero,
     BootFileName |-> "",
     Options |-> NoOptions]

\* The first three modifiers of updateMsg: message type, server identifier
\* (option 54) and siaddr.
baseMods(msgType, serverID, serverIP, reply) ==
    [reply EXCEPT
       !.Options = UpdateOption(
                      UpdateOption(@, OptionDHCPMessageType, msgType),
                      OptionServerIdentifier, serverID),
       !.ServerIPAddr = serverIP]

\* updateMsg applying the network boot options to every client when netboot
\* is enabled, without classifying the request
updateMsgAnyClient(h, span, pkt, d, n, msgType, newErr) ==
    LET r1 == baseMods(msgType, h.IPAddr, h.IPAddr, NewReplyFromRequest(pkt))
        r2 == setDHCPOpts(d, r1)
        r3 == IF h.NetbootEnabled
              THEN setNetworkBootOpts(h, span, pkt, n, r2) ELSE r2
    IN IF newErr THEN NilReply ELSE <<r3>>

\* updateMsg handles updating DHCP packets with the data from the backend.
\* newErr: NewReplyFromRequest returned an error; the result is then nil.
updateMsg(h, span, pkt, d, n, msgType, newErr) ==
    LET r1 == baseMods(msgType, h.IPAddr, h.IPAddr, NewReplyFromRequest(pkt))
        r2 == setDHCPOpts(d, r1)
        r3 == IF h.NetbootEnabled /\ isNetbootClient(pkt)
              THEN setNetworkBootOpts(h, span, pkt, n, r2) ELSE r2
    IN IF newErr THEN NilReply ELSE <<r3>>

\* reply.ToBytes() as far as the fields above go: a nil address is written
\* as four zero octets.
ToBytes(reply) ==
    [reply EXCEPT
       !.YourIPAddr = IF @ = NilIP THEN IPv4zero ELSE @,
       !.ServerIPAddr = IF @ = NilIP THEN IPv4zero ELSE @]

(***************************************************************************)
(* Request dispatcher                                                      *)
(***************************************************************************)

\* dispatch with the REQUEST case building an OFFER like the DISCOVER case
dispatchRequestOffer(mt) ==
    CASE mt = MessageTypeDiscover ->
           [read |-> TRUE, replyType |-> MessageTypeOffer]
      [] mt = MessageTypeRequest ->
           [read |-> TRUE, replyType |-> MessageTypeOffer]
      [] OTHER ->
           [read |-> FALSE, replyType |-> MessageTypeNone]

\* dispatch with an INFORM answered like a REQUEST
dispatchInformAck(mt) ==
    CASE mt = MessageTypeDiscover ->
           [read |-> TRUE, replyType |-> MessageTypeOffer]
      [] mt \in {MessageTypeRequest, MessageTypeInform} ->
           [read |-> TRUE, replyType |-> MessageTypeAck]
      [] OTHER ->
           [read |-> FALSE, replyType |-> MessageTypeNone]

\* The message type switch of Handle: whether the backend is read and the
\* type of the reply (MessageTypeNone: return without a reply).
dispatch(mt) ==
    CASE mt = MessageTypeDiscover ->
           [read |-> TRUE, replyType |-> MessageTypeOffer]
      [] mt = MessageTypeRequest ->
           [read |-> TRUE, replyType |-> MessageTypeAck]
      [] mt = MessageTypeRelease ->
           [read |-> FALSE, replyType |-> MessageTypeNone]
      [] OTHER ->
           [read |-> FALSE, replyType |-> MessageTypeNone]

\* readBackend calling Backend.Read again after an error
readBackendRetry(backend, mac) ==
    [calls |-> IF backend.err # "" THEN <<mac, mac>> ELSE <<mac>>,
     res |-> backend]

\* readBackend encapsulates the backend read: one call of Backend.Read
\* for the client's MAC, whose answer is passed on as it is.
readBackend(backend, mac) == [calls |-> <<mac>>, res |-> backend]

\* The backends a Handler can have: none, the no-op backend that
\* setDefaults puts in, or a BackendReader given by the caller
NilBackend == ""
noopHandler == "noop.Handler"
noopErr == "no backend specified, please specify a backend"

\* setDefaults leaving a Handler without backend as it is
setDefaultsKeepNil(h) == h

\* setDefaults will update the Handler struct to have default values so as
\* to avoid panic for nil pointers and such.
setDefaults(h) ==
    IF h.Backend = NilBackend THEN [h EXCEPT !.Backend = noopHandler] ELSE h

\* Handle ending the process when conn.WriteTo fails
handleStopOnWriteError(h, span, pkt, peer, backend, newErr, writeErr) ==
    LET quiet == [calls |-> <<>>, reply |-> NilReply, conn |-> <<>>,
                  status |-> "returned"]
        hd == setDefaults(h)
        sw == dispatch(MessageType(pkt))
        rb == readBackend(backend, pkt.ClientHWAddr)
    IN  IF pkt.isNil THEN quiet
        ELSE IF ~sw.read THEN quiet
        ELSE IF hd.Backend = NilBackend
             THEN \* h.Backend.Read on a nil interface
                  [quiet EXCEPT !.status = "panicked"]
        ELSE IF rb.res.err # "" THEN [quiet EXCEPT !.calls = rb.calls]
        ELSE LET reply == updateMsg(hd, span, pkt, rb.res.d, rb.res.n,
                                    sw.replyType, newErr)
             IN IF reply = NilReply
                THEN [calls |-> rb.calls, reply |-> NilReply, conn |-> <<>>,
                      status |-> "panicked"]
                ELSE [calls |-> rb.calls, reply |-> reply,
                      conn |-> <<[data |-> ToBytes(reply[1]), peer |-> peer,
                                  err |-> writeErr]>>,
                      status |-> IF writeErr THEN "panicked"
                                 ELSE "returned"]

\* Handle responds to DHCP messages with DHCP server options.  The result
\* names the Backend.Read calls made, the reply built, the WriteTo calls
\* made on conn and how the call ended.
\*   backend : what Backend.Read answers for this packet
\*   newErr  : NewReplyFromRequest fails
\*   writeErr: conn.WriteTo fails
handle(h, span, pkt, peer, backend, newErr, writeErr) ==
    LET quiet == [calls |-> <<>>, reply |-> NilReply, conn |-> <<>>,
                  status |-> "returned"]
        hd == setDefaults(h)
        sw == dispatch(MessageType(pkt))
        rb == readBackend(backend, pkt.ClientHWAddr)
    IN  IF pkt.isNil THEN quiet
        ELSE IF ~sw.read THEN quiet
        ELSE IF hd.Backend = NilBackend
             THEN \* h.Backend.Read on a nil interface
                  [quiet EXCEPT !.status = "panicked"]
        ELSE IF rb.res.err # "" THEN [quiet EXCEPT !.calls = rb.calls]
        ELSE LET reply == updateMsg(hd, span, pkt, rb.res.d, rb.res.n,
                                    sw.replyType, newErr)
             IN IF reply = NilReply
                THEN \* reply.ToBytes() on a nil reply
                     [calls |-> rb.calls, reply |-> NilReply, conn |-> <<>>,
                      status |-> "panicked"]
                ELSE [calls |-> rb.calls, reply |-> reply,
                      conn |-> <<[data |-> ToBytes(reply[1]), peer |-> peer,
                                  err |-> writeErr]>>,
                      status |-> "returned"]

(***************************************************************************)
(* The file backend                                                        *)
(***************************************************************************)

\* The value the YAML mapping y has for key, or the zero value of the
\* field when the mapping has no such key
yamlField(y, key, zero) == IF key \in DOMAIN y THEN y[key] ELSE zero

\* yaml.Unmarshal into the dhcp struct of the file backend: every field is
\* read from the key its tag names.  (The keys of the nested netboot
\* mapping are kept in the same mapping here.)
unmarshal(y) ==
    [IPAddress |-> yamlField(y, "ipAddress", ""),
     SubnetMask |-> yamlField(y, "subnetMask", ""),
     DefaultGateway |-> yamlField(y, "defaultGateway", ""),
     NameServers |-> yamlField(y, "nameServers", <<>>),
     Hostname |-> yamlField(y, "hostname", ""),
     DomainName |-> yamlField(y, "domainName", ""),
     BroadcastAddress |-> yamlField(y, "broadcastAddress", ""),
     NTPServers |-> yamlField(y, "ntpServers", <<>>),
     LeaseTime |-> yamlField(y, "leaseRime", 0),
     DomainSearch |-> yamlField(y, "domainSearch", <<>>),
     AllowPXE |-> yamlField(y, "allowPxe", FALSE),
     IPXEScriptURL |-> yamlField(y, "ipxeScriptUrl", "")]

\* net.IP.DefaultMask: the class A, B or C mask of an IPv4 address
DefaultMask(ip) ==
    IF ip = NilIP THEN <<>>
    ELSE IF ip[1] < 128 THEN <<255, 0, 0, 0>>
    ELSE IF ip[1] < 192 THEN <<255, 255, 0, 0>>
    ELSE <<255, 255, 255, 0>>

\* The loop of translate over name servers and NTP servers: the addresses
\* parsed up to the first text that does not parse
RECURSIVE parseServers(_)
parseServers(ss) ==
    IF ss = <<>> THEN <<>>
    ELSE IF ParseIP(Head(ss)) = NilIP THEN <<>>
    ELSE <<ParseIP(Head(ss))>> \o parseServers(Tail(ss))

\* The first position at or after i where sub occurs in str, 0 if none
RECURSIVE indexFrom(_, _, _)
indexFrom(str, sub, i) ==
    IF i + Len(sub) - 1 > Len(str) THEN 0
    ELSE IF SubSeq(str, i, i + Len(sub) - 1) = sub THEN i
    ELSE indexFrom(str, sub, i + 1)

\* url.Parse for a text of the form scheme://host/path: the URL, or NilURL
\* for a text whose host has a space in it (Parse returns an error)
ParseURL(str) ==
    LET k == indexFrom(str, "://", 1)
        rest == IF k = 0 THEN str ELSE SubSeq(str, k + 3, Len(str))
        j == indexFrom(rest, "/", 1)
        host == IF k = 0 THEN ""
                ELSE IF j = 0 THEN rest ELSE SubSeq(rest, 1, j - 1)
        path == IF k = 0 THEN str
                ELSE IF j = 0 THEN "" ELSE SubSeq(rest, j, Len(rest))
    IN IF indexFrom(host, " ", 1) # 0 THEN NilURL
       ELSE URL(IF k = 0 THEN "" ELSE SubSeq(str, 1, k - 1), host, path)

\* uint32(i) for an int i from 0 to 2^31 - 1, the lease times of the input
\* domain: the value is kept.  (No check is made that it is positive.)
uint32(i) == i

\* translate converts the data from the file into a data.DHCP and a
\* data.Netboot, or returns an error.
translate(r, mac) ==
    LET ip == ParseIP(r.IPAddress)
        sm == ParseIP(r.SubnetMask)
        u == ParseURL(r.IPXEScriptURL)
    IN  IF ip = NilIP THEN [err |-> "failed to parse IP from File"]
        ELSE IF sm = NilIP THEN [err |-> "failed to parse subnet mask"]
        ELSE IF r.IPXEScriptURL # "" /\ u = NilURL
        THEN [err |-> "failed to parse URL"]
        ELSE [err |-> "",
              d |-> [MACAddress |-> mac,
                     IPAddress |-> ip,
                     SubnetMask |-> DefaultMask(sm),
                     DefaultGateway |-> ParseIP(r.DefaultGateway),
                     NameServers |-> parseServers(r.NameServers),
                     Hostname |-> r.Hostname,
                     DomainName |-> r.DomainName,
                     BroadcastAddress |-> ParseIP(r.BroadcastAddress),
                     NTPServers |-> parseServers(r.NTPServers),
                     LeaseTime |-> uint32(r.LeaseTime),
                     DomainSearch |-> r.DomainSearch],
              n |-> [AllowNetboot |-> r.AllowPXE,
                     IPXEScriptURL |-> IF r.IPXEScriptURL # "" THEN u
                                       ELSE NilURL]]

\* Watcher.Read: the file's data is unmarshalled, the entry of the MAC is
\* looked up and translated.
WatcherRead(file, mac) ==
    IF ~file.wellFormed THEN [err |-> "invalid file format"]
    ELSE IF mac \in DOMAIN file.entries
    THEN translate(unmarshal(file.entries[mac]), mac)
    ELSE [err |-> "record not found"]

(***************************************************************************)
(* Bounds and input domains                                                *)
(***************************************************************************)

\* Longest option 97 value tried (the valid length is 17)
MaxGuidLen == 18

\* Most unnamed architecture codes put in front of a code in option 93
MaxUnknown == 1

mac1 == <<1, 2, 3, 4, 5, 6>>
mac2 == <<1, 2, 3, 4, 5, 7>>
MACs == {mac1, mac2}

MsgTypes == MessageTypeNone..MessageTypeInform

\* A *dhcpv4.DHCPv4; the nil pointer is NilPkt
Pkt(mac, opts) == [isNil |-> FALSE, ClientHWAddr |-> mac, Options |-> opts]
NilPkt == [isNil |-> TRUE, ClientHWAddr |-> <<>>, Options |-> NoOptions]

\* An option that is absent or has one of the values
OptChoices(code, values) == {NoOptions} \cup {code :> v : v \in values}

\* An option 97 value of n bytes starting with byte first
Guid(n, first) == [i \in 1..n |-> IF i = 1 THEN first ELSE 2]
Guids == {Guid(n, f) : n \in 0..MaxGuidLen, f \in {0, 1}}

Opt60Values ==
    {"", "PXEClient", "PXEClient:Arch:00007:UNDI:003001", "HTTPClient",
     "HTTPClient:Arch:00016:UNDI:003001", "pxeclient:Arch:00007",
     "PXEClien", "xHTTPClient"}

\* Architecture codes without a name in the library
UnnamedArch == 99
RECURSIVE Unnamed(_)
Unnamed(k) == IF k = 0 THEN <<>> ELSE <<UnnamedArch>> \o Unnamed(k - 1)

ArchCodes == {INTEL_X86PC, EFI_X86_64, EFI_ARM64_HTTP, UBOOT_ARM64,
              ArchRpiboot}
ArchLists ==
    {<<a>> : a \in ArchCodes}
        \cup {Unnamed(k) : k \in 0..MaxUnknown}
        \cup {Unnamed(k) \o <<EFI_X86_64>> : k \in 1..MaxUnknown}

nic == <<1, 2, 1>>

\* Packets without netboot options, one per message type and client
PlainPackets ==
    {Pkt(mac, OptionDHCPMessageType :> mt) : mac \in MACs, mt \in MsgTypes}
        \cup {Pkt(mac1, NoOptions), NilPkt}

\* DISCOVER and REQUEST packets of PXE and HTTP boot clients
NetbootPackets ==
    {Pkt(mac1, (OptionDHCPMessageType :> mt) @@ o60 @@ o77 @@ o93 @@ o94
                   @@ o97) :
        mt \in {MessageTypeDiscover, MessageTypeRequest},
        o60 \in OptChoices(OptionClassIdentifier,
                  {"PXEClient:Arch:00007:UNDI:003001",
                   "HTTPClient:Arch:00016:UNDI:003001"}),
        o77 \in OptChoices(OptionUserClassInformation,
                  {IPXE, Tinkerbell, "custom"}),
        o93 \in OptChoices(OptionClientSystemArchitectureType, ArchLists),
        o94 \in OptChoices(OptionClientNetworkInterfaceIdentifier, {nic}),
        o97 \in OptChoices(OptionClientMachineIdentifier, {Guid(16, 0)})}

\* REQUEST packets of a client selecting or renewing: with and without a
\* requested address (option 50), the reserved one or another, and a
\* server identifier (option 54), this server's or another's
RequestPackets ==
    {Pkt(mac, (OptionDHCPMessageType :> MessageTypeRequest) @@ o50 @@ o54) :
        mac \in MACs,
        o50 \in OptChoices(50, {<<192, 168, 1, 100>>, <<10, 0, 0, 5>>}),
        o54 \in OptChoices(OptionServerIdentifier,
                  {<<127, 0, 0, 1>>, <<10, 0, 0, 1>>})}

Packets == PlainPackets \cup NetbootPackets \cup RequestPackets

\* Packets for the classifier alone: every message type, class identifier,
\* presence of options 93 and 94 and option 97 value
ClassifierPackets ==
    {Pkt(mac1, o53 @@ o60 @@ o93 @@ o94 @@ o97) :
        o53 \in OptChoices(OptionDHCPMessageType, MsgTypes),
        o60 \in OptChoices(OptionClassIdentifier, Opt60Values),
        o93 \in OptChoices(OptionClientSystemArchitectureType,
                  {<<EFI_X86_64>>}),
        o94 \in OptChoices(OptionClientNetworkInterfaceIdentifier, {nic}),
        o97 \in OptChoices(OptionClientMachineIdentifier, Guids)}

\* Span contexts: no active span (the no-op tracer), a sampled span, a span
\* not sampled
NoSpan == [TraceID |-> [i \in 1..16 |-> 0], SpanID |-> [i \in 1..8 |-> 0],
           TraceFlags |-> 0]
SampledSpan == [TraceID |-> [i \in 1..16 |-> IF i <= 4 THEN i ELSE 0],
                SpanID |-> [i \in 1..8 |-> IF i <= 4 THEN 4 + i ELSE 171],
                TraceFlags |-> 1]
UnsampledSpan == [SampledSpan EXCEPT !.TraceFlags = 0]
Spans == {NoSpan, SampledSpan}

Peers == {[IP |-> IPv4bcast, Port |-> 68], [IP |-> <<192, 168, 1, 100>>,
                                            Port |-> 68]}

\* Backend records (data.DHCP)
FullRecord(mac) ==
    [MACAddress |-> mac,
     IPAddress |-> <<192, 168, 1, 100>>,
     SubnetMask |-> <<255, 255, 255, 0>>,
     DefaultGateway |-> <<192, 168, 1, 1>>,
     NameServers |-> << <<1, 1, 1, 1>> >>,
     Hostname |-> "test-host",
     DomainName |-> "mydomain.com",
     BroadcastAddress |-> <<192, 168, 1, 255>>,
     NTPServers |-> << <<132, 163, 96, 2>> >>,
     LeaseTime |-> 60,
     DomainSearch |-> <<"mydomain.com">>]
BareRecord(mac) ==
    [MACAddress |-> mac,
     IPAddress |-> <<10, 0, 0, 7>>,
     SubnetMask |-> <<>>,
     DefaultGateway |-> NilIP,
     NameServers |-> <<>>,
     Hostname |-> "",
     DomainName |-> "",
     BroadcastAddress |-> NilIP,
     NTPServers |-> <<>>,
     LeaseTime |-> 0,
     DomainSearch |-> <<>>]

\* Backend netboot records (data.Netboot)
NetbootRecords ==
    {[AllowNetboot |-> TRUE,
      IPXEScriptURL |-> URL("http", "localhost:8181", "/auto.ipxe")],
     [AllowNetboot |-> TRUE, IPXEScriptURL |-> NilURL],
     [AllowNetboot |-> FALSE, IPXEScriptURL |-> NilURL]}

\* What Backend.Read can answer for a MAC: an error, or a record pair
BackendAnswers(mac) ==
    {[err |-> "record not found"], [err |-> "backend unavailable"]}
    \cup {[err |-> "", d |-> FullRecord(mac), n |-> n] : n \in NetbootRecords}
    \cup {[err |-> "", d |-> BareRecord(mac),
           n |-> [AllowNetboot |-> TRUE, IPXEScriptURL |-> NilURL]]}

\* Codes iana.Arch.String has a name for.  Whether the library names code
\* 41 depends on its version, so both cases are configurations.
NamedArchs == 0..36

\* Handler configurations
BaseConfig ==
    [IPAddr |-> <<127, 0, 0, 1>>,
     Listener |-> [IP |-> <<192, 168, 2, 225>>, Port |-> 67],
     NetbootEnabled |-> TRUE,
     IPXEBinServerTFTP |-> [IP |-> <<192, 168, 6, 5>>, Port |-> 69],
     IPXEBinServerHTTP |-> URL("http", "192.168.1.34:8080", ""),
     IPXEScriptURL |-> URL("http", "localhost:8181", "/auto.ipxe"),
     UserClass |-> "",
     OTELEnabled |-> FALSE,
     ArchNamed |-> NamedArchs,
     Backend |-> "BackendReader"]
Configs ==
    {BaseConfig,
     [BaseConfig EXCEPT !.NetbootEnabled = FALSE],
     [BaseConfig EXCEPT !.UserClass = "custom",
                        !.IPXEBinServerHTTP = URL("http", "192.168.2.50", "")],
     [BaseConfig EXCEPT !.OTELEnabled = TRUE,
                        !.IPXEBinServerHTTP = URL("http", "boot.example.com",
                                                  "/ipxe"),
                        !.IPXEScriptURL = NilURL],
     [BaseConfig EXCEPT !.UserClass = IPXE,
                        !.ArchNamed = NamedArchs \cup {ArchRpiboot}]}

\* The configurations with no backend given
NoBackendConfigs == {[c EXCEPT !.Backend = NilBackend] : c \in Configs}

\* h.Backend.Read(ctx, mac): the no-op backend always answers with its
\* error, a backend given answers as BackendAnswers says; a call on no
\* backend at all does not return
Read(h, mac) ==
    CASE h.Backend = noopHandler -> {[err |-> noopErr]}
      [] h.Backend = NilBackend -> {[err |-> "nil pointer dereference"]}
      [] OTHER -> BackendAnswers(mac)

\* Most packets one client sends in a behaviour
MaxPackets == 2

\* The messages a client may send after one of type mt: a retransmission,
\* the REQUEST that follows a DISCOVER, the RELEASE or DECLINE that follows
\* a REQUEST, a new DISCOVER after a RELEASE.
FollowTypes(mt) ==
    CASE mt = MessageTypeDiscover -> {MessageTypeDiscover, MessageTypeRequest}
      [] mt = MessageTypeRequest -> {MessageTypeRequest, MessageTypeRelease,
                                     MessageTypeDecline}
      [] mt = MessageTypeRelease -> {MessageTypeDiscover}
      [] OTHER -> {}

(***************************************************************************)
(* State                                                                   *)
(***************************************************************************)

VARIABLES
    cfg,      \* the Handler (Server) fields, fixed once running
    seq,      \* the number of packets received so far
    pkt,      \* the packet handed to the handler last
    peer,     \* the peer it came from
    span,     \* the span context of the handler's ctx
    backend,  \* what Backend.Read answers when called for this packet
    calls,    \* the MACs Backend.Read was called with for this packet
    reply,    \* the reply built for this packet (NilReply: none)
    conn,     \* the WriteTo calls made on conn for this packet
    status,   \* "idle", "received", or how the handler call ended
    netboot,  \* the verdict of isNetbootClient on pkt, "" before any call
    tp,       \* the traceparent encoded last, empty before any
    file,     \* the data of the file backend (Watcher.data) when the
              \* handler reads from one, NoFile otherwise
    srv,      \* the call of Server.Serve: where it is, its ctx and socket,
              \* the datagram read last and what was handed to the handlers
    writeErrs, \* the number of handler calls that logged "failed to send
               \* DHCP" so far
    lsn        \* the Listener: its registered server, the socket, and where
               \* the calls of Serve and Shutdown are

vars == <<cfg, seq, pkt, peer, span, backend, calls, reply, conn, status,
          netboot, tp, file, srv, writeErrs, lsn>>

NoAnswer == [err |-> "not read"]
NoFile == <<>>

\* Serve has not been called: ctx is live, the socket bound and open
NoDatagram == <<>>
NotServing ==
    [pc |-> "start", ctxDone |-> FALSE, closed |-> FALSE, ret |-> "",
     reads |-> 0, dgram |-> NoDatagram, handed |-> <<>>,
     parseErrors |-> 0, goroutines |-> <<>>]

\* A Listener nobody has called yet: l.srv is nil, the socket open
NewListener ==
    [pc |-> "idle", handler |-> "", srv |-> FALSE, closed |-> FALSE,
     ret |-> "", shutdown |-> ""]

\* No packet has been received
Idle ==
    /\ seq = 0
    /\ pkt = NilPkt
    /\ peer = [IP |-> IPv4bcast, Port |-> 68]
    /\ span = NoSpan
    /\ backend = NoAnswer
    /\ calls = <<>>
    /\ reply = NilReply
    /\ conn = <<>>
    /\ status = "idle"
    /\ netboot = ""
    /\ tp = <<>>
    /\ file = NoFile
    /\ srv = NotServing
    /\ writeErrs = 0
    /\ lsn = NewListener

Init == cfg \in Configs /\ Idle

\* A handler call starts on packet p from peer pr
Start(p, pr) ==
    /\ seq' = seq + 1
    /\ pkt' = p
    /\ peer' = pr
    /\ span' = NoSpan
    /\ backend' = NoAnswer
    /\ calls' = <<>>
    /\ reply' = NilReply
    /\ conn' = <<>>
    /\ status' = "received"
    /\ netboot' = ""
    /\ UNCHANGED <<cfg, tp, file, srv, writeErrs, lsn>>

\* The first packet of a client arrives and is handed to the handler.
Receive ==
    /\ status = "idle"
    /\ \E p \in Packets, pr \in Peers : Start(p, pr)

\* The client sends its next message once the handler is done with the
\* previous one.
FollowUp ==
    /\ status = "returned"
    /\ seq < MaxPackets
    /\ ~pkt.isNil
    /\ \E mt \in FollowTypes(MessageType(pkt)) :
         Start([pkt EXCEPT !.Options =
                   UpdateOption(@, OptionDHCPMessageType, mt)], peer)

\* Handler.Handle runs on the packet received, to its end.
HandleWith(newErrs) ==
    /\ status = "received"
    /\ \E sp \in Spans, ne \in newErrs, we \in BOOLEAN :
         \E b \in Read(setDefaults(cfg), pkt.ClientHWAddr) :
           \E r \in {handle(cfg, sp, pkt, peer, b, ne, we)} :
           /\ cfg' = setDefaults(cfg)
           /\ span' = sp
           /\ backend' = b
           /\ calls' = r.calls
           /\ reply' = r.reply
           /\ conn' = r.conn
           /\ status' = r.status
           /\ netboot' = IF ~pkt.isNil /\ isNetbootClient(pkt)
                          THEN "true" ELSE "false"
           /\ writeErrs' = IF conn' # <<>> /\ conn'[1].err
                             THEN writeErrs + 1 ELSE writeErrs
           /\ UNCHANGED <<seq, pkt, peer, tp, file, srv, lsn>>

\* Handle answering a REQUEST only of a client whose DISCOVER it has seen
HandleKnownClients ==
    /\ status = "received"
    /\ \E sp \in Spans, we \in BOOLEAN :
         \E b \in Read(setDefaults(cfg), pkt.ClientHWAddr) :
           \E r \in {IF seq = 1 /\ MessageType(pkt) = MessageTypeRequest
                     THEN [calls |-> <<>>, reply |-> NilReply, conn |-> <<>>,
                           status |-> "returned"]
                     ELSE handle(cfg, sp, pkt, peer, b, FALSE, we)} :
           /\ cfg' = setDefaults(cfg)
           /\ span' = sp
           /\ backend' = b
           /\ calls' = r.calls
           /\ reply' = r.reply
           /\ conn' = r.conn
           /\ status' = r.status
           /\ netboot' = IF ~pkt.isNil /\ isNetbootClient(pkt)
                          THEN "true" ELSE "false"
           /\ writeErrs' = IF conn' # <<>> /\ conn'[1].err
                             THEN writeErrs + 1 ELSE writeErrs
           /\ UNCHANGED <<seq, pkt, peer, tp, file, srv, lsn>>

Handle == HandleWith({FALSE})

Next == Receive \/ FollowUp \/ Handle

Spec == Init /\ [][Next]_vars

\* Handler.Handle runs on the packet received, to its end or to its panic;
\* dhcpv4.NewReplyFromRequest may fail.
HandleBuild == HandleWith(BOOLEAN)

NextBuild == Receive \/ FollowUp \/ HandleBuild

SpecBuild == Init /\ [][NextBuild]_vars

\* The handler was given no backend.
InitNoBackend == cfg \in NoBackendConfigs /\ Idle

SpecNoBackend == InitNoBackend /\ [][Next]_vars

(***************************************************************************)
(* The classifier on its own                                               *)
(***************************************************************************)

\* isNetbootClient is applied to a packet of any message type.
Classify ==
    /\ status = "idle"
    /\ \E p \in ClassifierPackets :
         /\ pkt' = p
         /\ netboot' = IF isNetbootClient(p) THEN "true" ELSE "false"
         /\ status' = "classified"
    /\ UNCHANGED <<cfg, seq, peer, span, backend, calls, reply, conn, tp, file,
                   srv, writeErrs, lsn>>

SpecClassifier == Init /\ [][Classify]_vars

(***************************************************************************)
(* The traceparent encoder on its own                                      *)
(***************************************************************************)

\* Byte values tried in the ends of the trace id and of the span id
IDBytes == {0, 1, 255}

\* Span contexts of a ctx: every pair of end bytes of the two ids and the
\* trace flags 0 to 3 (bit 0 is the sampled flag).  The one with all
\* bytes zero is that of a ctx without a span.
TraceSpans ==
    {[TraceID |-> [i \in 1..16 |-> IF i = 1 THEN a ELSE IF i = 16 THEN b
                                   ELSE 0],
      SpanID |-> [i \in 1..8 |-> IF i = 1 THEN c ELSE IF i = 8 THEN d ELSE 0],
      TraceFlags |-> f] :
        a \in IDBytes, b \in IDBytes, c \in IDBytes, d \in IDBytes,
        f \in 0..3}

\* TraceparentFromContext is called with the span context of a ctx.
Encode ==
    /\ status = "idle"
    /\ \E sc \in TraceSpans :
         /\ span' = sc
         /\ tp' = TraceparentFromContext(sc)
         /\ status' = "encoded"
    /\ UNCHANGED <<cfg, seq, pkt, peer, backend, calls, reply, conn, netboot,
                   file, srv, writeErrs, lsn>>

SpecTraceparent == Init /\ [][Encode]_vars

(***************************************************************************)
(* The handler with the records of the backends                            *)
(***************************************************************************)

\* Records with every choice of optional fields set or left zero
RecordsOf(mac) ==
    {[MACAddress |-> mac,
      IPAddress |-> <<192, 168, 1, 100>>,
      SubnetMask |-> sm, DefaultGateway |-> gw, NameServers |-> ns,
      Hostname |-> hn, DomainName |-> dn, BroadcastAddress |-> ba,
      NTPServers |-> nt, LeaseTime |-> lt, DomainSearch |-> ds] :
        sm \in {<<>>, <<255, 255, 0, 0>>},
        gw \in {NilIP, <<192, 168, 1, 1>>},
        ns \in {<<>>, << <<1, 1, 1, 1>>, <<8, 8, 8, 8>> >>},
        hn \in {"", "test-host"},
        dn \in {"", "mydomain.com"},
        ba \in {NilIP, <<192, 168, 1, 255>>},
        nt \in {<<>>, << <<132, 163, 96, 2>> >>},
        lt \in {0, 60},
        ds \in {<<>>, <<"mydomain.com">>}}

\* The entries a file may have for a MAC: YAML mappings from key to value
FileEntries ==
    {ip @@ sm @@ gw @@ ns @@ lt @@ pxe @@ url :
        ip \in OptChoices("ipAddress", {"192.168.1.100"}),
        sm \in OptChoices("subnetMask",
                 {"255.255.255.0", "255.255.0.0", "255.255.252.0"}),
        gw \in OptChoices("defaultGateway", {"192.168.1.1"}),
        ns \in OptChoices("nameServers",
                 {<<"1.1.1.1">>, <<"1.1.1.1", "dns", "8.8.8.8">>}),
        lt \in OptChoices("leaseTime", {86400})
                 \cup OptChoices("leaseRime", {0, 60}),
        pxe \in OptChoices("allowPxe", {TRUE}),
        url \in OptChoices("ipxeScriptUrl",
                  {"http://localhost:8181/auto.ipxe",
                   "http://boot server/auto.ipxe"})}

\* The data of a file: not YAML, without entries, or with an entry for the
\* first client
Files ==
    {[wellFormed |-> FALSE, entries |-> <<>>],
     [wellFormed |-> TRUE, entries |-> <<>>]}
        \cup {[wellFormed |-> TRUE, entries |-> mac1 :> e] : e \in FileEntries}

\* Packets of two clients and a PXE client's DISCOVER
BackendPackets ==
    {Pkt(mac, OptionDHCPMessageType :> mt) :
        mac \in MACs,
        mt \in {MessageTypeDiscover, MessageTypeRequest, MessageTypeRelease}}
    \cup {Pkt(mac1, (OptionDHCPMessageType :> MessageTypeDiscover)
                      @@ (OptionClassIdentifier :> "PXEClient")
                      @@ (OptionClientSystemArchitectureType :> <<EFI_X86_64>>)
                      @@ (OptionClientNetworkInterfaceIdentifier :> nic))}

\* Watcher.Start: the file was written and its data is read into memory.
WriteFile ==
    /\ status = "idle"
    /\ file = NoFile
    /\ file' \in Files
    /\ UNCHANGED <<cfg, seq, pkt, peer, span, backend, calls, reply, conn,
                   status, netboot, tp, srv, writeErrs, lsn>>

\* A packet arrives and is handed to the handler.
ReceiveBackends ==
    /\ status = "idle"
    /\ \E p \in BackendPackets, pr \in Peers : Start(p, pr)

\* Handler.Handle runs on the packet received, to its end, Backend.Read
\* answering one of answers.
HandleAnswers(answers) ==
    /\ status = "received"
    /\ \E sp \in Spans, we \in BOOLEAN :
         \E b \in answers :
           \E r \in {handle(cfg, sp, pkt, peer, b, FALSE, we)} :
           /\ span' = sp
           /\ backend' = b
           /\ calls' = r.calls
           /\ reply' = r.reply
           /\ conn' = r.conn
           /\ status' = r.status
           /\ netboot' = IF ~pkt.isNil /\ isNetbootClient(pkt)
                          THEN "true" ELSE "false"
           /\ writeErrs' = IF conn' # <<>> /\ conn'[1].err
                             THEN writeErrs + 1 ELSE writeErrs
           /\ UNCHANGED <<cfg, seq, pkt, peer, tp, file, srv, lsn>>

\* The handler's backend holds any record for the client.
HandleRecord ==
    /\ file = NoFile
    /\ status = "received"
    /\ HandleAnswers({[err |-> "", d |-> d,
                       n |-> [AllowNetboot |-> TRUE, IPXEScriptURL |-> NilURL]] :
                         d \in RecordsOf(pkt.ClientHWAddr)})

\* The handler's backend is the file backend.
HandleFile ==
    /\ file # NoFile
    /\ status = "received"
    /\ HandleAnswers({WatcherRead(file, pkt.ClientHWAddr)})

NextBackends == WriteFile \/ ReceiveBackends \/ HandleRecord \/ HandleFile

SpecBackends == Init /\ [][NextBackends]_vars

(***************************************************************************)
(* The dispatcher draft with one function per message type                 *)
(***************************************************************************)

\* The reply handleDiscover and handleRequest build: the netboot options
\* are applied whenever netboot is enabled.
draftReply(s, sp, m, d, n, msgType, serverID, newErr) ==
    LET r1 == baseMods(msgType, serverID, s.IPAddr, NewReplyFromRequest(m))
        r2 == setDHCPOpts(d, r1)
        r3 == IF s.NetbootEnabled
              THEN setNetworkBootOpts(s, sp, m, n, r2) ELSE r2
    IN IF newErr THEN NilReply ELSE <<r3>>

\* handleDiscover handles DHCP packets message type of discover.
handleDiscover(s, sp, m, b, newErr) ==
    IF b.err # "" THEN NilReply
    ELSE draftReply(s, sp, m, b.d, b.n, MessageTypeOffer, s.IPAddr, newErr)

\* handleRequest handles DHCP packets message type of request: the server
\* identifier is taken from the listen address.
handleRequest(s, sp, m, b, newErr) ==
    IF b.err # "" THEN NilReply
    ELSE draftReply(s, sp, m, b.d, b.n, MessageTypeAck, s.Listener.IP,
                    newErr)

\* handleFunc of the draft: the reply, if any, is written to the peer.
handleFunc(s, sp, m, pr, b, newErr, writeErr) ==
    LET mt == MessageType(m)
        rd == mt \in {MessageTypeDiscover, MessageTypeRequest}
        r == CASE mt = MessageTypeDiscover -> handleDiscover(s, sp, m, b, newErr)
               [] mt = MessageTypeRequest -> handleRequest(s, sp, m, b, newErr)
               [] OTHER -> NilReply
    IN  IF m.isNil
        THEN [calls |-> <<>>, reply |-> NilReply, conn |-> <<>>,
              status |-> "panicked"]
        ELSE [calls |-> IF rd THEN <<m.ClientHWAddr>> ELSE <<>>,
              reply |-> r,
              conn |-> IF r = NilReply THEN <<>>
                       ELSE <<[data |-> ToBytes(r[1]), peer |-> pr,
                               err |-> writeErr]>>,
              status |-> "returned"]

\* The draft's handleFunc runs on the packet received, to its end.
HandleFuncDraft ==
    /\ status = "received"
    /\ \E sp \in Spans, we \in BOOLEAN :
         \E b \in BackendAnswers(pkt.ClientHWAddr) :
           \E r \in {handleFunc(cfg, sp, pkt, peer, b, FALSE, we)} :
           /\ span' = sp
           /\ backend' = b
           /\ calls' = r.calls
           /\ reply' = r.reply
           /\ conn' = r.conn
           /\ status' = r.status
           /\ netboot' = IF ~pkt.isNil /\ isNetbootClient(pkt)
                          THEN "true" ELSE "false"
           /\ writeErrs' = IF conn' # <<>> /\ conn'[1].err
                             THEN writeErrs + 1 ELSE writeErrs
           /\ UNCHANGED <<cfg, seq, pkt, peer, tp, file, srv, lsn>>

NextDraft == Receive \/ FollowUp \/ HandleFuncDraft

SpecDraft == Init /\ [][NextDraft]_vars

(***************************************************************************)
(* Properties of the dispatcher                                            *)
(***************************************************************************)

\* The handler call on pkt has ended
Returned == status = "returned" /\ ~pkt.isNil

\* The message type of the datagram of the i-th WriteTo call
SentType(i) == conn[i].data.Options[OptionDHCPMessageType]

\* C1: for a DISCOVER whose backend read succeeds the handler makes exactly
\* one WriteTo call, to the peer, with an OFFER; for a REQUEST whose backend
\* read succeeds exactly one, with an ACK.
C1_OfferForDiscoverAckForRequest ==
    (Returned /\ backend.err = "") =>
        /\ MessageType(pkt) = MessageTypeDiscover =>
              /\ Len(conn) = 1
              /\ conn[1].peer = peer
              /\ SentType(1) = MessageTypeOffer
        /\ MessageType(pkt) = MessageTypeRequest =>
              /\ Len(conn) = 1
              /\ conn[1].peer = peer
              /\ SentType(1) = MessageTypeAck

\* A REQUEST that follows a DISCOVER has been answered with an ACK
C1_Witness ==
    /\ Returned /\ seq = 2 /\ backend.err = ""
    /\ MessageType(pkt) = MessageTypeRequest
    /\ Len(conn) = 1 /\ SentType(1) = MessageTypeAck

\* C2: when the backend read of a DISCOVER or REQUEST returns an error, the
\* backend was called exactly once for the packet, with the client's MAC,
\* and no WriteTo call was made.
C2_ReadErrorOneCallNoWrite ==
    (/\ Returned
     /\ MessageType(pkt) \in {MessageTypeDiscover, MessageTypeRequest}
     /\ backend.err # "") =>
        /\ calls = <<pkt.ClientHWAddr>>
        /\ conn = <<>>

\* A DISCOVER has been dropped because the backend was unavailable
C2_Witness ==
    /\ Returned /\ MessageType(pkt) = MessageTypeDiscover
    /\ backend.err = "backend unavailable"
    /\ calls = <<pkt.ClientHWAddr>> /\ conn = <<>>

\* C3: a RELEASE, and any message type other than DISCOVER and REQUEST,
\* produces no WriteTo call and no backend read.
C3_OtherTypesSilent ==
    (/\ Returned
     /\ MessageType(pkt) \notin {MessageTypeDiscover, MessageTypeRequest}) =>
        /\ conn = <<>>
        /\ calls = <<>>

\* A RELEASE that follows a REQUEST has been handled, the backend being
\* ready to answer
C3_Witness ==
    /\ Returned /\ seq = 2 /\ MessageType(pkt) = MessageTypeRelease
    /\ backend.err = "" /\ conn = <<>> /\ calls = <<>>

\* C4: every reply sent, OFFER or ACK alike, has yiaddr equal to the
\* ip_address of the record read for the client's MAC and option 54 equal
\* to the configured server IP.
C4_YiaddrAndServerIdentifier ==
    (Returned /\ conn # <<>>) =>
        \A i \in 1..Len(conn) :
            /\ backend.err = ""
            /\ backend.d.MACAddress = pkt.ClientHWAddr
            /\ conn[i].data.YourIPAddr = backend.d.IPAddress
            /\ conn[i].data.Options[OptionServerIdentifier] = cfg.IPAddr

(***************************************************************************)
(* Properties of the classifier                                            *)
(***************************************************************************)

\* The class identifiers of the input domain that start with "PXEClient"
\* or "HTTPClient"
NetbootClassIds ==
    {"PXEClient", "PXEClient:Arch:00007:UNDI:003001", "HTTPClient",
     "HTTPClient:Arch:00016:UNDI:003001"}

\* The five conditions of a netboot client, read off the packet
NetbootConditions(p) ==
    /\ OptionDHCPMessageType \in DOMAIN p.Options
    /\ p.Options[OptionDHCPMessageType]
           \in {MessageTypeDiscover, MessageTypeRequest}
    /\ OptionClassIdentifier \in DOMAIN p.Options
    /\ p.Options[OptionClassIdentifier] \in NetbootClassIds
    /\ OptionClientSystemArchitectureType \in DOMAIN p.Options
    /\ OptionClientNetworkInterfaceIdentifier \in DOMAIN p.Options
    /\ \/ OptionClientMachineIdentifier \notin DOMAIN p.Options
       \/ Len(p.Options[OptionClientMachineIdentifier]) = 0
       \/ /\ Len(p.Options[OptionClientMachineIdentifier]) = 17
          /\ p.Options[OptionClientMachineIdentifier][1] = 0

\* C5: isNetbootClient returns true if and only if the message type is
\* DISCOVER or REQUEST, option 60 is present and starts with "PXEClient" or
\* "HTTPClient", options 93 and 94 are present, and option 97 is absent,
\* empty, or 17 bytes long with first byte 0.
C5_NetbootClientIff ==
    (netboot # "" /\ ~pkt.isNil) =>
        (netboot = "true" <=> NetbootConditions(pkt))

\* A REQUEST with a 17 byte GUID starting with 0 was classified a netboot
\* client
C5_Witness ==
    /\ status = "classified" /\ netboot = "true"
    /\ MessageType(pkt) = MessageTypeRequest
    /\ Len(GetBytes(pkt.Options, OptionClientMachineIdentifier)) = 17

(***************************************************************************)
(* Properties of the chainload decision                                    *)
(***************************************************************************)

\* A DISCOVER or REQUEST was handled and the backend read succeeded
Answered ==
    /\ Returned
    /\ MessageType(pkt) \in {MessageTypeDiscover, MessageTypeRequest}
    /\ backend.err = ""

\* The netboot options are applied to the reply of the packet handled
NetbootApplied == Answered /\ cfg.NetbootEnabled /\ netboot = "true"

\* The rules R1..R4 are applied: the record allows netboot and the
\* request's architecture is in the table
Chainload ==
    /\ NetbootApplied
    /\ backend.n.AllowNetboot
    /\ arch(pkt, cfg.ArchNamed) \in DOMAIN ArchToBootFile

\* The request's user class (option 77) and the conditions of R1, R2, R3
RequestUserClass ==
    IF OptionUserClassInformation \in DOMAIN pkt.Options
    THEN pkt.Options[OptionUserClassInformation] ELSE ""
MatchR1 ==
    \/ RequestUserClass = "Tinkerbell"
    \/ cfg.UserClass # "" /\ RequestUserClass = cfg.UserClass
MatchR2 ==
    /\ OptionClassIdentifier \in DOMAIN pkt.Options
    /\ pkt.Options[OptionClassIdentifier]
           \in {"HTTPClient", "HTTPClient:Arch:00016:UNDI:003001"}
MatchR3 == RequestUserClass = "iPXE"

\* The first rule that matches
FirstRule ==
    IF MatchR1 THEN 1 ELSE IF MatchR2 THEN 2 ELSE IF MatchR3 THEN 3 ELSE 4

\* b is the binary name of the request's architecture: the name in the
\* table when OTEL is disabled, that name with the traceparent suffix when
\* OTEL is enabled and the span is sampled.  With OTEL enabled and no
\* sampled span only the table's name at the front is asked for here.
IsBinary(b) ==
    LET name == ArchToBootFile[arch(pkt, cfg.ArchNamed)] IN
    IF ~cfg.OTELEnabled THEN b = name
    ELSE IF span.TraceFlags % 2 = 1
    THEN b = name \o "-00-" \o HexString(span.TraceID) \o "-"
               \o HexString(span.SpanID) \o "-01"
    ELSE HasPrefix(b, name)

\* The bootfile of the reply is prefix followed by the binary name
BootfileIs(prefix) ==
    LET bf == reply[1].BootFileName IN
    /\ HasPrefix(bf, prefix)
    /\ IsBinary(SubSeq(bf, Len(prefix) + 1, Len(bf)))

\* The iPXE script URL: the record's if it has one, else the configured
ScriptURL ==
    IF backend.n.IPXEScriptURL # NilURL THEN backend.n.IPXEScriptURL
    ELSE cfg.IPXEScriptURL

\* IPv4 addresses an HTTP host may spell
HostAddresses == {<<192, 168, 1, 34>>, <<192, 168, 2, 50>>}

\* The reply carries the result of R1, R2, R3, R4
ResultR1 ==
    /\ reply[1].BootFileName =
          IF ScriptURL = NilURL THEN "/no-ipxe-script-defined"
          ELSE URLString(ScriptURL[1])
    /\ reply[1].ServerIPAddr = NilIP
ResultR2 ==
    /\ BootfileIs(URLString(cfg.IPXEBinServerHTTP[1]) \o "/")
    /\ reply[1].ServerIPAddr =
          IF \E ip \in HostAddresses :
                IPString(ip) = cfg.IPXEBinServerHTTP[1].Host
          THEN CHOOSE ip \in HostAddresses :
                  IPString(ip) = cfg.IPXEBinServerHTTP[1].Host
          ELSE <<0, 0, 0, 0>>
ResultR3 ==
    /\ BootfileIs("tftp://" \o IPString(cfg.IPXEBinServerTFTP.IP) \o ":"
                      \o ToString(cfg.IPXEBinServerTFTP.Port) \o "/")
    /\ reply[1].ServerIPAddr = cfg.IPXEBinServerTFTP.IP
ResultR4 ==
    /\ BootfileIs("")
    /\ reply[1].ServerIPAddr = cfg.IPXEBinServerTFTP.IP
ResultOf(r) ==
    CASE r = 1 -> ResultR1 [] r = 2 -> ResultR2 [] r = 3 -> ResultR3
      [] OTHER -> ResultR4

\* C6: the chainload decision returns the result of the first rule that
\* matches, in the order R1, R2, R3, R4, and not the result of any later
\* rule, also when the request matches several rules.
C6_FirstMatchingRule ==
    Chainload =>
        /\ ResultOf(FirstRule)
        /\ \A r \in (FirstRule + 1)..4 : ~ResultOf(r)

\* A request with user class "Tinkerbell" and an option 60 starting with
\* "HTTPClient" got the script URL
C6_Witness ==
    /\ Chainload /\ MatchR2 /\ RequestUserClass = "Tinkerbell"
    /\ ResultR1 /\ reply[1].BootFileName = "http://localhost:8181/auto.ipxe"

\* C7: under R1 (user class "Tinkerbell", or a configured user class that
\* is non-empty and equal to the request's) the bootfile is the string of
\* the iPXE script URL, the record's if it has one and else the configured
\* one, or "/no-ipxe-script-defined" when neither is set, and the next
\* server is left unset.
C7_ScriptRule ==
    (Chainload /\ MatchR1) =>
        /\ reply[1].ServerIPAddr = NilIP
        /\ backend.n.IPXEScriptURL # NilURL =>
              reply[1].BootFileName = URLString(backend.n.IPXEScriptURL[1])
        /\ (backend.n.IPXEScriptURL = NilURL /\ cfg.IPXEScriptURL # NilURL) =>
              reply[1].BootFileName = URLString(cfg.IPXEScriptURL[1])
        /\ (backend.n.IPXEScriptURL = NilURL /\ cfg.IPXEScriptURL = NilURL) =>
              reply[1].BootFileName = "/no-ipxe-script-defined"

\* A request whose user class equals the configured one was answered
\* with the configured script URL, the record having none
C7_Witness ==
    /\ Chainload /\ cfg.UserClass = "custom" /\ RequestUserClass = "custom"
    /\ backend.n.IPXEScriptURL = NilURL
    /\ reply[1].BootFileName = "http://localhost:8181/auto.ipxe"
    /\ reply[1].ServerIPAddr = NilIP

\* A request with user class "Tinkerbell" was answered with
\* "/no-ipxe-script-defined", no script URL being set
C7_WitnessNoScript ==
    /\ Chainload /\ RequestUserClass = "Tinkerbell" /\ ScriptURL = NilURL
    /\ reply[1].BootFileName = "/no-ipxe-script-defined"

C8_WitnessNoAddress ==
    /\ Chainload /\ ~MatchR1 /\ MatchR2
    /\ cfg.IPXEBinServerHTTP[1].Host = "boot.example.com"
    /\ reply[1].ServerIPAddr = <<0, 0, 0, 0>>

C9_WitnessDefault ==
    /\ Chainload /\ ~MatchR1 /\ ~MatchR2 /\ RequestUserClass = ""
    /\ reply[1].BootFileName = "undionly.kpxe"
    /\ reply[1].ServerIPAddr = <<192, 168, 6, 5>>

\* The netboot options are applied but the record does not allow netboot
\* or the request's architecture is not in the table
NotAllowed ==
    \/ ~backend.n.AllowNetboot
    \/ arch(pkt, cfg.ArchNamed) \notin DOMAIN ArchToBootFile

\* The one datagram written carries no result of a rule: its bootfile is
\* "/netboot-not-allowed" and its siaddr 0.0.0.0
SentNotAllowed ==
    /\ Len(conn) = 1
    /\ conn[1].peer = peer
    /\ conn[1].data.BootFileName = "/netboot-not-allowed"
    /\ conn[1].data.ServerIPAddr = <<0, 0, 0, 0>>

\* C10 as stated: for a netboot client whose record has allow_netboot
\* false, or whose option 93 architecture is not in the table, the reply
\* is still sent, with bootfile "/netboot-not-allowed" and siaddr 0.0.0.0,
\* and no rule R1-R4 is applied.
C10_Original ==
    (Answered /\ netboot = "true" /\ NotAllowed) => SentNotAllowed

\* C10: when netboot is enabled, for a netboot client whose record has
\* allow_netboot false, or whose option 93 architecture is not in the
\* table, the reply is still sent, with bootfile "/netboot-not-allowed"
\* and siaddr 0.0.0.0, and no rule R1-R4 is applied.
C10_NetbootNotAllowed ==
    (NetbootApplied /\ NotAllowed) =>
        /\ SentNotAllowed
        /\ reply[1].BootFileName = "/netboot-not-allowed"
        /\ reply[1].ServerIPAddr = <<0, 0, 0, 0>>

\* A netboot client with user class "Tinkerbell" whose architecture is not
\* in the table, the record allowing netboot, was answered with
\* "/netboot-not-allowed"
C10_Witness ==
    /\ NetbootApplied /\ backend.n.AllowNetboot
    /\ arch(pkt, cfg.ArchNamed) \notin DOMAIN ArchToBootFile
    /\ RequestUserClass = "Tinkerbell"
    /\ SentNotAllowed

\* A netboot client whose record does not allow netboot was answered with
\* "/netboot-not-allowed"
C10_WitnessRecord ==
    /\ NetbootApplied /\ ~backend.n.AllowNetboot
    /\ arch(pkt, cfg.ArchNamed) \in DOMAIN ArchToBootFile
    /\ SentNotAllowed

(***************************************************************************)
(* Properties of the netboot options                                       *)
(***************************************************************************)

\* r carries option 43 with exactly two sub-options: 6 with the one byte 8
\* and 69 with 26 bytes, the version 0, the trace id, the span id and the
\* sampled flag of the span
HasBootOption43(r) ==
    /\ OptionVendorSpecificInformation \in DOMAIN r.Options
    /\ LET v == r.Options[OptionVendorSpecificInformation] IN
       /\ Len(v) = 31
       /\ SubSeq(v, 1, 3) = <<6, 1, 8>>
       /\ SubSeq(v, 4, 5) = <<69, 26>>
       /\ v[6] = 0
       /\ SubSeq(v, 7, 22) = span.TraceID
       /\ SubSeq(v, 23, 30) = span.SpanID
       /\ v[31] = IF span.TraceFlags % 2 = 1 THEN 1 ELSE 0

EchoesHTTPClient(r) ==
    /\ OptionClassIdentifier \in DOMAIN r.Options
    /\ r.Options[OptionClassIdentifier] = "HTTPClient"
NoOption60(r) == OptionClassIdentifier \notin DOMAIN r.Options

\* C12 as stated: if the request's option 60 starts with "HTTPClient" the
\* reply's option 60 is exactly "HTTPClient"; otherwise the reply has no
\* option 60.
C12_Original ==
    Answered =>
        /\ reply # NilReply
        /\ IF MatchR2 THEN EchoesHTTPClient(reply[1])
           ELSE NoOption60(reply[1])

\* C12: if netboot options are applied (netboot enabled and the request is
\* a netboot client) and the request's option 60 starts with "HTTPClient",
\* the reply's option 60 is exactly "HTTPClient"; otherwise the reply has
\* no option 60.
C12_Option60Echo ==
    Answered =>
        /\ reply # NilReply
        /\ IF NetbootApplied /\ MatchR2 THEN EchoesHTTPClient(reply[1])
           ELSE NoOption60(reply[1])

\* An HTTP boot client whose option 60 was longer than "HTTPClient" was
\* answered with option 60 "HTTPClient"
C12_Witness ==
    /\ NetbootApplied
    /\ pkt.Options[OptionClassIdentifier]
           = "HTTPClient:Arch:00016:UNDI:003001"
    /\ EchoesHTTPClient(reply[1])
    /\ Len(conn) = 1 /\ EchoesHTTPClient(conn[1].data)

\* A PXE client was answered without option 60
C12_WitnessPXE ==
    /\ NetbootApplied /\ ~MatchR2 /\ NoOption60(reply[1])

(***************************************************************************)
(* Properties of the traceparent encoder                                   *)
(***************************************************************************)

\* C13: the binary traceparent is always exactly 26 bytes: byte 0 is 0,
\* bytes 1-16 are the trace id, bytes 17-24 the span id, and byte 25 is 1
\* if and only if the span is sampled (0 otherwise); with no active span
\* every byte is zero.  (Bytes are counted from 0, tuples from 1.)
C13_Traceparent ==
    status = "encoded" =>
        /\ Len(tp) = 26
        /\ tp[1] = 0
        /\ \A i \in 1..16 : tp[1 + i] = span.TraceID[i]
        /\ \A i \in 1..8 : tp[17 + i] = span.SpanID[i]
        /\ tp[26] = 1 <=> span.TraceFlags \in {1, 3}
        /\ tp[26] \in {0, 1}
        /\ span = NoSpan => \A i \in 1..26 : tp[i] = 0

\* The span context of an unsampled span with other trace flags set was
\* encoded with last byte 0
C13_Witness ==
    /\ status = "encoded" /\ span.TraceFlags = 2
    /\ span.TraceID[1] = 255 /\ span.SpanID[8] = 1
    /\ Len(tp) = 26 /\ tp[2] = 255 /\ tp[25] = 1 /\ tp[26] = 0

(***************************************************************************)
(* Properties of the binary name                                           *)
(***************************************************************************)

\* str ends with suffix
HasSuffix(str, suffix) ==
    /\ Len(str) >= Len(suffix)
    /\ SubSeq(str, Len(str) - Len(suffix) + 1, Len(str)) = suffix

\* The binary name is part of the bootfile: a rule other than R1 is applied
BinaryInBootfile == Chainload /\ FirstRule # 1

\* The name the table has for the request's architecture
TableName == ArchToBootFile[arch(pkt, cfg.ArchNamed)]

\* C14: the binary name gets the suffix "-00-", the 32 hex digits of the
\* trace id, "-", the 16 hex digits of the span id, "-" and the 2 hex digits
\* of the trace flags when OTEL is enabled and a sampled span is active,
\* and gets no suffix when OTEL is disabled.
C14_BinarySuffix ==
    BinaryInBootfile =>
        /\ (cfg.OTELEnabled /\ span = SampledSpan) =>
              HasSuffix(reply[1].BootFileName,
                        TableName \o "-00-01020304000000000000000000000000"
                                  \o "-05060708abababab-01")
        /\ ~cfg.OTELEnabled => HasSuffix(reply[1].BootFileName, TableName)

\* With OTEL enabled and a sampled span a stock iPXE client was given a
\* binary name with the suffix
C14_Witness ==
    /\ BinaryInBootfile /\ cfg.OTELEnabled /\ span = SampledSpan
    /\ reply[1].BootFileName =
          "tftp://192.168.6.5:69/ipxe.efi-00-"
              \o "01020304000000000000000000000000-05060708abababab-01"

\* With OTEL disabled and a sampled span the binary name was left alone
C14_WitnessDisabled ==
    /\ BinaryInBootfile /\ ~cfg.OTELEnabled /\ span = SampledSpan
    /\ reply[1].BootFileName = "snp.efi"

(***************************************************************************)
(* Properties of the option builder                                        *)
(***************************************************************************)

\* The datagram written carries option code with value v
SentOption(code, v) ==
    /\ code \in DOMAIN conn[1].data.Options
    /\ conn[1].data.Options[code] = v

\* The datagram written carries option code with value v if the record's
\* field is set, and no option code if it is zero or empty
OptionIffSet(code, set, v) ==
    IF set THEN SentOption(code, v)
    ELSE code \notin DOMAIN conn[1].data.Options

\* C15: for every record, the reply contains the option of each non-zero
\* or non-empty field (subnet mask 1, router 3, DNS 6, hostname 12, domain
\* name 15, broadcast 28, NTP 42, lease time 51, domain search 119) with
\* the record's value, and no option for a field that is zero or empty.
C15_OptionPerSetField ==
    Answered =>
        LET d == backend.d IN
        /\ Len(conn) = 1
        /\ OptionIffSet(OptionSubnetMask, d.SubnetMask # <<>>, d.SubnetMask)
        /\ OptionIffSet(OptionRouter, d.DefaultGateway # NilIP,
                        <<d.DefaultGateway>>)
        /\ OptionIffSet(OptionDomainNameServer, d.NameServers # <<>>,
                        d.NameServers)
        /\ OptionIffSet(OptionHostName, d.Hostname # "", d.Hostname)
        /\ OptionIffSet(OptionDomainName, d.DomainName # "", d.DomainName)
        /\ OptionIffSet(OptionBroadcastAddress, d.BroadcastAddress # NilIP,
                        d.BroadcastAddress)
        /\ OptionIffSet(OptionNTPServers, d.NTPServers # <<>>, d.NTPServers)
        /\ OptionIffSet(OptionIPAddressLeaseTime, d.LeaseTime # 0,
                        d.LeaseTime)
        /\ OptionIffSet(OptionDNSDomainSearchList, d.DomainSearch # <<>>,
                        d.DomainSearch)

\* C16: whenever a reply is sent, the lease time it carries (option 51,
\* taken from the record's lease_time) is greater than zero.
C16_LeaseTimePositive ==
    (Returned /\ conn # <<>>) =>
        \A i \in 1..Len(conn) :
            /\ OptionIPAddressLeaseTime \in DOMAIN conn[i].data.Options
            /\ conn[i].data.Options[OptionIPAddressLeaseTime]
                   = backend.d.LeaseTime
            /\ conn[i].data.Options[OptionIPAddressLeaseTime] > 0

\* The mask a file entry provides, as four bytes
ProvidedMask(entry) ==
    CASE entry["subnetMask"] = "255.255.255.0" -> <<255, 255, 255, 0>>
      [] entry["subnetMask"] = "255.255.0.0" -> <<255, 255, 0, 0>>
      [] entry["subnetMask"] = "255.255.252.0" -> <<255, 255, 252, 0>>

\* C17: option 1 of the reply is the subnet mask provided for the client's
\* record, used directly: a record configured with mask 255.255.0.0 yields
\* a reply whose option 1 is 255.255.0.0.
C17_ProvidedMask ==
    (Answered /\ file # NoFile) =>
        /\ Len(conn) = 1
        /\ SentOption(OptionSubnetMask,
                      ProvidedMask(file.entries[pkt.ClientHWAddr]))

(***************************************************************************)
(* Properties of the replies without netboot options                       *)
(***************************************************************************)

\* r is a plain reply: no option 60, no option 43, an empty bootfile and
\* the configured address of the server as siaddr
PlainReply(r) ==
    /\ OptionClassIdentifier \notin DOMAIN r.Options
    /\ OptionVendorSpecificInformation \notin DOMAIN r.Options
    /\ r.BootFileName = ""
    /\ r.ServerIPAddr = cfg.IPAddr

\* C18: when netboot is disabled or the request is not a netboot client,
\* the reply has no option 60, no option 43, an empty bootfile, and siaddr
\* equal to the configured server_ip, whatever the record's netboot fields
\* (allow_netboot, script URL) are.
C18_PlainReply ==
    (Answered /\ ~(cfg.NetbootEnabled /\ netboot = "true")) =>
        /\ Len(reply) = 1 /\ PlainReply(reply[1])
        /\ Len(conn) = 1 /\ PlainReply(conn[1].data)

\* A netboot client whose record allows netboot and names a script was
\* answered with a plain reply by a server with netboot disabled
C18_Witness ==
    /\ Answered /\ ~cfg.NetbootEnabled /\ netboot = "true"
    /\ backend.n.AllowNetboot /\ backend.n.IPXEScriptURL # NilURL
    /\ Len(conn) = 1 /\ PlainReply(conn[1].data)

\* A client that is no netboot client, whose record allows netboot, was
\* answered with a plain reply by a server with netboot enabled
C18_WitnessPlainClient ==
    /\ Answered /\ cfg.NetbootEnabled /\ netboot = "false"
    /\ backend.n.AllowNetboot
    /\ Len(conn) = 1 /\ PlainReply(conn[1].data)


\* C19 as stated: for a netboot reply chosen by rule R1 (user class
\* "Tinkerbell"), the chainload step does not override next-server: the
\* reply's siaddr is still the value set by the plain reply, the
\* configured server_ip.
C19_Original ==
    (Chainload /\ MatchR1) =>
        /\ Len(conn) = 1
        /\ conn[1].data.ServerIPAddr = cfg.IPAddr

\* C19: for a netboot reply chosen by rule R1 (user class "Tinkerbell"),
\* the chainload step replaces the next-server of the plain reply by none:
\* the reply's ServerIPAddr is unset and the siaddr of the datagram sent is
\* 0.0.0.0, whatever the configured server_ip is.
C19_NextServerR1 ==
    (Chainload /\ MatchR1) =>
        /\ Len(reply) = 1 /\ reply[1].ServerIPAddr = NilIP
        /\ Len(conn) = 1
        /\ conn[1].data.ServerIPAddr = <<0, 0, 0, 0>>

\* A REQUEST with user class "Tinkerbell" was answered with the script URL
\* as bootfile and siaddr 0.0.0.0
C19_Witness ==
    /\ Chainload /\ RequestUserClass = "Tinkerbell"
    /\ MessageType(pkt) = MessageTypeRequest
    /\ SentType(1) = MessageTypeAck
    /\ ScriptURL # NilURL
    /\ conn[1].data.BootFileName = URLString(ScriptURL[1])
    /\ conn[1].data.ServerIPAddr = <<0, 0, 0, 0>>


(***************************************************************************)
(* The receive loop (Server.Serve)                                         *)
(***************************************************************************)

\* The first 12 bytes of an IPv4 address in its 16 byte form
v4InV6Prefix == [i \in 1..12 |-> IF i > 10 THEN 255 ELSE 0]

\* net.IP.To4: the 4 byte form of an IPv4 address, nil for anything else
To4(ip) ==
    IF Len(ip) = 4 THEN ip
    ELSE IF Len(ip) = 16 /\ SubSeq(ip, 1, 12) = v4InV6Prefix
         THEN SubSeq(ip, 13, 16)
         ELSE NilIP

\* net.IP.Equal: an IPv4 address equals its own 16 byte form
Equal(ip, x) ==
    IF Len(ip) = Len(x) THEN ip = x
    ELSE IF Len(ip) = 4 /\ Len(x) = 16
         THEN SubSeq(x, 1, 12) = v4InV6Prefix /\ ip = SubSeq(x, 13, 16)
    ELSE IF Len(ip) = 16 /\ Len(x) = 4
         THEN SubSeq(ip, 1, 12) = v4InV6Prefix /\ SubSeq(ip, 13, 16) = x
    ELSE FALSE

\* The peer rewritten only when it has no address at all
setPeerToBroadcastNilOnly(upeer) ==
    IF upeer.IP = NilIP
    THEN [IP |-> IPv4bcast, Port |-> upeer.Port]
    ELSE upeer

\* Set peer to broadcast if the client did not have an IP.  (net.IPv4zero
\* is kept in the 16 byte form; the addresses replies are written to are in
\* the 4 byte form.)
setPeerToBroadcast(upeer) ==
    IF upeer.IP = NilIP \/ Equal(To4(upeer.IP), v4InV6Prefix \o IPv4zero)
    THEN [IP |-> IPv4bcast, Port |-> upeer.Port]
    ELSE upeer

\* dhcpv4.FromBytes on the bytes read: the message, or an error
FromBytes(rbuf) ==
    IF rbuf.dhcp THEN [m |-> rbuf.m, err |-> FALSE]
    ELSE [m |-> NilPkt, err |-> TRUE]

\* net.InterfaceByIndex: the name of the interface, "" if there is none
Interfaces == (1 :> "lo") @@ (2 :> "eth0")
InterfaceByIndex(i) == IF i \in DOMAIN Interfaces THEN Interfaces[i] ELSE ""

\* The handlers registered (Server.Handlers)
NumHandlers == 2

\* What one turn of the loop hands to the handlers for the datagram dg:
\* nothing if it does not parse or its peer is no UDP address, else one
\* data.Packet per handler
handOver(dg) ==
    LET parsed == FromBytes(dg.data) IN
    IF parsed.err \/ ~dg.peer.udp THEN <<>>
    ELSE [h \in 1..NumHandlers |->
            [handler |-> h,
             Peer |-> setPeerToBroadcast([IP |-> dg.peer.IP,
                                          Port |-> dg.peer.Port]),
             Pkt |-> parsed.m,
             Md |-> [IfName |-> InterfaceByIndex(dg.ifIndex),
                     IfIndex |-> dg.ifIndex]]]

\* The datagrams the socket delivers: the peer's address is nil, 0.0.0.0,
\* a unicast or the broadcast address, in the 4 or the 16 byte form, or an
\* IPv6 address; one peer is no UDP address
MaxDatagrams == 2
RawIPs ==
    {NilIP, IPv4zero, v4InV6Prefix \o IPv4zero,
     <<192, 168, 1, 100>>, v4InV6Prefix \o <<192, 168, 1, 100>>,
     IPv4bcast,
     [i \in 1..16 |-> 0],
     [i \in 1..16 |-> IF i = 16 THEN 1 ELSE 0]}
RawPeers ==
    [udp : {TRUE}, IP : RawIPs, Port : {67, 68}]
        \cup {[udp |-> FALSE, IP |-> NilIP, Port |-> 0]}
RawData ==
    {[dhcp |-> TRUE, m |-> Pkt(mac1, OptionDHCPMessageType :> mt)] :
        mt \in {MessageTypeDiscover, MessageTypeRequest}}
        \cup {[dhcp |-> FALSE, m |-> NilPkt]}
Datagrams == [data : RawData, peer : RawPeers, ifIndex : {0, 2}]

\* Serve is called: the goroutine waiting for ctx is started and the
\* control message flag set; if that fails Serve returns the error.
ServeStart ==
    /\ srv.pc = "start"
    /\ \E ok \in BOOLEAN :
         srv' = IF ok THEN [srv EXCEPT !.pc = "loop"]
                ELSE [srv EXCEPT !.pc = "returned", !.ret = "err"]
    /\ UNCHANGED <<cfg, seq, pkt, peer, span, backend, calls, reply, conn,
                   status, netboot, tp, file, writeErrs, lsn>>

\* ctx is cancelled.
Cancel ==
    /\ ~srv.ctxDone
    /\ srv' = [srv EXCEPT !.ctxDone = TRUE]
    /\ UNCHANGED <<cfg, seq, pkt, peer, span, backend, calls, reply, conn,
                   status, netboot, tp, file, writeErrs, lsn>>

\* The goroutine of Serve sees ctx done and closes the socket.
CloseOnDone ==
    /\ srv.pc # "start" /\ srv.ctxDone /\ ~srv.closed
    /\ srv' = [srv EXCEPT !.closed = TRUE]
    /\ UNCHANGED <<cfg, seq, pkt, peer, span, backend, calls, reply, conn,
                   status, netboot, tp, file, writeErrs, lsn>>

\* The goroutines one turn of the loop starts, one per data.Packet handed
\* over: the turn it belongs to, its handler and whether Handle returned
spawn(turn, packets) ==
    [i \in 1..Len(packets) |->
        [read |-> turn, handler |-> packets[i].handler, done |-> FALSE]]

\* One turn of the loop that goes on only when the handlers of the turns
\* before have returned
ReadDatagramAfterHandlers ==
    /\ srv.pc = "loop" /\ ~srv.closed
    /\ srv.reads < MaxDatagrams
    /\ \A i \in 1..Len(srv.goroutines) : srv.goroutines[i].done
    /\ \E dg \in Datagrams :
         srv' = [srv EXCEPT !.reads = @ + 1,
                            !.dgram = <<dg>>,
                            !.handed = handOver(dg),
                            !.parseErrors =
                                IF FromBytes(dg.data).err THEN @ + 1 ELSE @,
                            !.goroutines =
                                @ \o spawn(srv.reads + 1, handOver(dg))]
    /\ UNCHANGED <<cfg, seq, pkt, peer, span, backend, calls, reply, conn,
                   status, netboot, tp, file, writeErrs, lsn>>

\* One turn of the loop in which a datagram that does not parse ends Serve
\* with the error
ReadDatagramStopOnParseError ==
    /\ srv.pc = "loop" /\ ~srv.closed
    /\ srv.reads < MaxDatagrams
    /\ \E dg \in Datagrams :
         srv' = IF FromBytes(dg.data).err
                THEN [srv EXCEPT !.reads = @ + 1,
                                 !.dgram = <<dg>>,
                                 !.handed = <<>>,
                                 !.parseErrors = @ + 1,
                                 !.pc = "returned",
                                 !.ret = "err",
                                 !.closed = TRUE]
                ELSE [srv EXCEPT !.reads = @ + 1,
                                 !.dgram = <<dg>>,
                                 !.handed = handOver(dg),
                                 !.goroutines =
                                     @ \o spawn(srv.reads + 1, handOver(dg))]
    /\ UNCHANGED <<cfg, seq, pkt, peer, span, backend, calls, reply, conn,
                   status, netboot, tp, file, writeErrs, lsn>>

\* One turn of the loop: a datagram is read, parsed and handed to the
\* handlers, each in a goroutine of its own; a datagram that does not
\* parse is logged and dropped.
ReadDatagram ==
    /\ srv.pc = "loop" /\ ~srv.closed
    /\ srv.reads < MaxDatagrams
    /\ \E dg \in Datagrams :
         srv' = [srv EXCEPT !.reads = @ + 1,
                            !.dgram = <<dg>>,
                            !.handed = handOver(dg),
                            !.parseErrors =
                                IF FromBytes(dg.data).err THEN @ + 1 ELSE @,
                            !.goroutines =
                                @ \o spawn(srv.reads + 1, handOver(dg))]
    /\ UNCHANGED <<cfg, seq, pkt, peer, span, backend, calls, reply, conn,
                   status, netboot, tp, file, writeErrs, lsn>>

\* ReadFrom fails and Serve returns the error, whether ctx is done or not
ReadErrorReported ==
    /\ srv.pc = "loop"
    /\ srv' = [srv EXCEPT !.pc = "returned",
                          !.ret = "err",
                          !.closed = TRUE]
    /\ UNCHANGED <<cfg, seq, pkt, peer, span, backend, calls, reply, conn,
                   status, netboot, tp, file, writeErrs, lsn>>

\* ReadFrom fails, as it does on a closed socket: Serve returns nil if ctx
\* is done and the error otherwise; the deferred function closes the
\* socket.
ReadError ==
    /\ srv.pc = "loop"
    /\ srv' = [srv EXCEPT !.pc = "returned",
                          !.ret = IF srv.ctxDone THEN "nil" ELSE "err",
                          !.closed = TRUE]
    /\ UNCHANGED <<cfg, seq, pkt, peer, span, backend, calls, reply, conn,
                   status, netboot, tp, file, writeErrs, lsn>>

\* Handler.Handle returns in the goroutine i.
HandleReturns(i) ==
    /\ i \in 1..Len(srv.goroutines)
    /\ ~srv.goroutines[i].done
    /\ srv' = [srv EXCEPT !.goroutines[i].done = TRUE]
    /\ UNCHANGED <<cfg, seq, pkt, peer, span, backend, calls, reply, conn,
                   status, netboot, tp, file, writeErrs, lsn>>

\* Handler.Handle returns in one of the goroutines started.
HandlerReturns ==
    \E i \in 1..(MaxDatagrams * NumHandlers) : HandleReturns(i)

NextServe ==
    \/ ServeStart \/ Cancel \/ CloseOnDone \/ ReadDatagram \/ ReadError
    \/ HandlerReturns

\* Serve is called on a server with the base configuration
InitServe == Init /\ cfg = BaseConfig

SpecServe == InitServe /\ [][NextServe]_vars

\* The loop and the goroutine of Serve are scheduled and datagrams keep
\* arriving; a read on a closed socket fails.  Nothing makes a handler
\* return: Handle may stay blocked in its backend for good.
SpecServeLive ==
    /\ SpecServe
    /\ WF_vars(ServeStart)
    /\ WF_vars(ReadDatagram)
    /\ WF_vars(CloseOnDone)
    /\ WF_vars(srv.closed /\ ReadError)

(***************************************************************************)
(* Properties of the receive loop                                          *)
(***************************************************************************)

\* The datagram read last was handed to the handlers
HandedOver == srv.dgram # NoDatagram /\ Len(srv.handed) > 0

\* The peer of the datagram read last has no address or the address
\* 0.0.0.0, in the 4 or the 16 byte form
PeerWithoutIP ==
    srv.dgram[1].peer.IP \in {NilIP, <<0, 0, 0, 0>>,
                              <<0, 0, 0, 0, 0, 0, 0, 0, 0, 0, 255, 255,
                                0, 0, 0, 0>>}

\* C20: in the receive loop, a datagram whose peer address is nil or
\* 0.0.0.0 is handed to the handlers with peer rewritten to
\* 255.255.255.255 and the same port; a datagram from any other peer
\* address is handed over with its peer unchanged.
C20_PeerRewrite ==
    /\ (srv.dgram # NoDatagram /\ srv.dgram[1].data.dhcp
          /\ srv.dgram[1].peer.udp) => HandedOver
    /\ HandedOver =>
         \A i \in 1..Len(srv.handed) :
            srv.handed[i].Peer =
               IF PeerWithoutIP
               THEN [IP |-> <<255, 255, 255, 255>>,
                     Port |-> srv.dgram[1].peer.Port]
               ELSE [IP |-> srv.dgram[1].peer.IP,
                     Port |-> srv.dgram[1].peer.Port]

\* A DISCOVER from 0.0.0.0:68 was handed over with peer
\* 255.255.255.255:68
C20_Witness ==
    /\ HandedOver
    /\ srv.dgram[1].peer.IP = <<0, 0, 0, 0>> /\ srv.dgram[1].peer.Port = 68
    /\ MessageType(srv.dgram[1].data.m) = MessageTypeDiscover
    /\ srv.handed[1].Peer = [IP |-> <<255, 255, 255, 255>>, Port |-> 68]

\* A datagram with no peer address was handed over with peer
\* 255.255.255.255:67
C20_WitnessNil ==
    /\ HandedOver
    /\ srv.dgram[1].peer.IP = NilIP /\ srv.dgram[1].peer.Port = 67
    /\ srv.handed[1].Peer = [IP |-> <<255, 255, 255, 255>>, Port |-> 67]

\* A datagram from 192.168.1.100:68 was handed over with its peer
C20_WitnessUnchanged ==
    /\ HandedOver
    /\ srv.dgram[1].peer.IP = <<192, 168, 1, 100>>
    /\ srv.handed[1].Peer = [IP |-> <<192, 168, 1, 100>>, Port |-> 68]


\* A turn of the loop: one more datagram has been read
ReadTurn == srv'.reads = srv.reads + 1

\* The datagram read in this turn is a DHCPv4 message from a UDP peer
ReadsMessage ==
    ReadTurn /\ srv'.dgram[1].data.dhcp /\ srv'.dgram[1].peer.udp

\* C21: a datagram that fails to parse as DHCPv4 is dropped without
\* invoking any handler, and the receive loop keeps running: datagrams
\* received after it are still parsed and dispatched.
C21_ParseErrorDropped ==
    [][/\ (ReadTurn /\ ~srv'.dgram[1].data.dhcp) =>
            /\ srv'.handed = <<>>
            /\ srv'.goroutines = srv.goroutines
            /\ srv'.parseErrors = srv.parseErrors + 1
            /\ srv'.pc = "loop" /\ srv'.ret = "" /\ ~srv'.closed
       /\ (srv.parseErrors > 0 /\ ReadsMessage) =>
            /\ Len(srv'.handed) = NumHandlers
            /\ \A i \in 1..NumHandlers :
                  srv'.handed[i].Pkt = srv'.dgram[1].data.m
            /\ Len(srv'.goroutines) = Len(srv.goroutines) + NumHandlers
      ]_vars

\* After a datagram that did not parse, a DISCOVER was read and handed to
\* the handlers
C21_Witness ==
    /\ srv.reads = 2 /\ srv.parseErrors = 1
    /\ srv.dgram[1].data.dhcp
    /\ Len(srv.handed) = NumHandlers
    /\ MessageType(srv.handed[1].Pkt) = MessageTypeDiscover
    /\ Len(srv.goroutines) = NumHandlers


\* The goroutines started in the turn of the loop read last, for handler h
GoroutinesOf(h) ==
    {i \in 1..Len(srv.goroutines) :
        srv.goroutines[i].read = srv.reads /\ srv.goroutines[i].handler = h}

\* The datagram read last is a DHCPv4 message from a UDP peer
MessageRead ==
    srv.dgram # NoDatagram /\ srv.dgram[1].data.dhcp /\ srv.dgram[1].peer.udp

\* Some handler has not returned
HandlerBlocked ==
    \E i \in 1..Len(srv.goroutines) : ~srv.goroutines[i].done

\* C22: each successfully parsed datagram is delivered exactly once to
\* every registered handler, each in its own unit of concurrency, and the
\* receive loop goes on to read the next datagram without waiting for any
\* handler to finish, so a handler blocked in a slow backend call delays
\* neither the other handlers nor later datagrams.
C22_FanOut ==
    /\ [](MessageRead =>
            \A h \in 1..NumHandlers :
               /\ Cardinality(GoroutinesOf(h)) = 1
               /\ Cardinality({i \in 1..Len(srv.handed) :
                                  srv.handed[i].handler = h}) = 1
               /\ \A i \in 1..Len(srv.handed) :
                     srv.handed[i].Pkt = srv.dgram[1].data.m)
    /\ [](\A i \in 1..Len(srv.goroutines) :
            ~srv.goroutines[i].done => ENABLED HandleReturns(i))
    /\ (srv.pc = "loop" /\ HandlerBlocked) ~>
          (srv.reads = MaxDatagrams \/ srv.closed \/ srv.pc = "returned")

\* The second datagram was handed to both handlers while no handler of the
\* first had returned
C22_Witness ==
    /\ srv.reads = 2 /\ MessageRead
    /\ Len(srv.goroutines) = 2 * NumHandlers
    /\ \A i \in 1..Len(srv.goroutines) : ~srv.goroutines[i].done
    /\ \A h \in 1..NumHandlers : Cardinality(GoroutinesOf(h)) = 1

\* One handler of a datagram returned while the other is still running
C22_WitnessIndependent ==
    /\ MessageRead /\ Len(srv.goroutines) >= 2
    /\ ~srv.goroutines[1].done /\ srv.goroutines[2].done


\* C23: after the cancellation signal fires, the UDP socket is closed, the
\* blocked receive is released, and Serve eventually returns, reporting
\* normal termination (no error) rather than the closed-socket read error.
C23_CancelEndsServe ==
    (srv.pc = "loop" /\ srv.ctxDone) ~>
        (srv.pc = "returned" /\ srv.closed /\ srv.ret = "nil")

\* Serve returned nil after ctx was cancelled while it was in the loop
C23_Witness ==
    /\ srv.pc = "returned" /\ srv.ctxDone /\ srv.closed /\ srv.ret = "nil"
    /\ srv.reads > 0


\* C24: on every path by which Serve returns (cancellation, read error,
\* failure to set the control message), the bound socket has been closed
\* by the time Serve returns.
C24_ClosedOnReturn == srv.pc = "returned" => srv.closed


(***************************************************************************)
(* Properties of the handler's failures                                    *)
(***************************************************************************)

\* The handler runs on the packet received
HandleStep == status = "received" /\ status' # "received"

\* C25: when writing the reply to the socket fails, the handler logs the
\* error and returns normally; the failure does not stop the server, and
\* packets received afterwards are still handled.
C25_WriteErrorGoesOn ==
    [][/\ (HandleStep /\ conn' # <<>> /\ conn'[1].err) =>
            /\ status' = "returned"
            /\ Len(conn') = 1
            /\ writeErrs' = writeErrs + 1
       /\ (HandleStep /\ writeErrs > 0) =>
            /\ status' = "returned"
            /\ (/\ backend'.err = ""
                /\ MessageType(pkt) \in {MessageTypeDiscover,
                                         MessageTypeRequest}) =>
                  /\ Len(conn') = 1
                  /\ conn'[1].data.YourIPAddr = backend'.d.IPAddress
      ]_vars

\* After the write of the OFFER failed, the client's REQUEST was
\* answered with an ACK
C25_Witness ==
    /\ writeErrs = 1 /\ seq = 2 /\ Returned
    /\ MessageType(pkt) = MessageTypeRequest
    /\ Len(conn) = 1 /\ ~conn[1].err
    /\ SentType(1) = MessageTypeAck


\* The handler ran on a DISCOVER or REQUEST whose record was read, and
\* building the reply from the request failed
BuildFailed ==
    /\ status \in {"returned", "panicked"} /\ ~pkt.isNil
    /\ MessageType(pkt) \in {MessageTypeDiscover, MessageTypeRequest}
    /\ backend.err = ""
    /\ reply = NilReply

\* C26: when building the reply from the request fails, the reply is
\* dropped: the handler writes nothing to the socket (not even an empty
\* datagram) and returns normally without crashing.
C26_BuildErrorDropsReply ==
    BuildFailed => (conn = <<>> /\ status = "returned")


\* C27: a reservation handler that was given no backend uses the no-op
\* backend, whose read always fails, so it never writes a datagram for any
\* message type and never crashes on the nil backend.
C27_NoBackendSilent ==
    /\ conn = <<>> /\ reply = NilReply /\ writeErrs = 0
    /\ status # "panicked"
    /\ status = "returned" =>
          /\ cfg.Backend = noopHandler
          /\ backend = [err |-> noopErr]

\* A DISCOVER was handled by a handler without backend: the no-op backend
\* was read once and nothing was written
C27_Witness ==
    /\ Returned /\ MessageType(pkt) = MessageTypeDiscover
    /\ cfg.Backend = noopHandler
    /\ calls = <<pkt.ClientHWAddr>>
    /\ backend.err = noopErr
    /\ conn = <<>>


(***************************************************************************)
(* The Listener (Serve and Shutdown)                                       *)
(***************************************************************************)

\* The handlers and connections Serve is called with: no handler or the
\* no-op handler, no connection or a bound socket
ListenerHandlers == {"", "noop.Handler"}
ListenerConns == {"", "udp"}

\* Listener.Serve is called: a nil handler is replaced by the no-op
\* handler, a nil connection ends the call with ErrNoConn, and the server
\* is created, which may fail.
ListenerServe ==
    /\ lsn.pc = "idle"
    /\ \E h \in ListenerHandlers, c \in ListenerConns, ok \in BOOLEAN :
         LET l == [lsn EXCEPT !.handler = IF h = "" THEN "noop.Handler"
                                           ELSE h]
         IN lsn' = IF c = ""
                   THEN [l EXCEPT !.pc = "returned",
                                  !.ret = "no connection specified"]
                   ELSE IF ~ok
                   THEN [l EXCEPT !.pc = "returned",
                                  !.ret = "failed to create dhcpv4 server"]
                   ELSE [l EXCEPT !.pc = "created"]
    /\ UNCHANGED <<cfg, seq, pkt, peer, span, backend, calls, reply, conn,
                   status, netboot, tp, file, srv, writeErrs>>

\* Serve registers the server under the mutex and calls its Serve.
Register ==
    /\ lsn.pc = "created"
    /\ lsn' = [lsn EXCEPT !.srv = TRUE, !.pc = "serving"]
    /\ UNCHANGED <<cfg, seq, pkt, peer, span, backend, calls, reply, conn,
                   status, netboot, tp, file, srv, writeErrs>>

\* The server reads a packet and the no-op handler is called with it: it
\* logs that no handler was specified and writes nothing.
ServePacket ==
    /\ lsn.pc = "serving" /\ ~lsn.closed
    /\ lsn.handler = "noop.Handler"
    /\ seq < MaxPackets
    /\ \E p \in PlainPackets \ {NilPkt}, pr \in Peers :
         /\ seq' = seq + 1
         /\ pkt' = p
         /\ peer' = pr
    /\ status' = "returned"
    /\ UNCHANGED <<cfg, span, backend, calls, reply, conn, netboot, tp, file,
                   srv, writeErrs, lsn>>

\* The server's read fails on the closed socket and Serve returns the
\* error.
ServeReturns ==
    /\ lsn.pc = "serving" /\ lsn.closed
    /\ lsn' = [lsn EXCEPT !.pc = "returned",
                          !.ret = "use of closed network connection"]
    /\ UNCHANGED <<cfg, seq, pkt, peer, span, backend, calls, reply, conn,
                   status, netboot, tp, file, srv, writeErrs>>

\* Listener.Shutdown is called, once, while Serve is running or before:
\* under the mutex it closes the registered server, or returns an error if
\* none is registered.
Shutdown ==
    /\ lsn.shutdown = ""
    /\ lsn' = IF lsn.srv
              THEN [lsn EXCEPT !.closed = TRUE, !.shutdown = "closed"]
              ELSE [lsn EXCEPT !.shutdown = "no server to shutdown"]
    /\ UNCHANGED <<cfg, seq, pkt, peer, span, backend, calls, reply, conn,
                   status, netboot, tp, file, srv, writeErrs>>

NextListener ==
    ListenerServe \/ Register \/ ServePacket \/ ServeReturns \/ Shutdown

\* Both calls are made and run on: every step of Serve and the one
\* Shutdown are taken.
SpecListener ==
    /\ InitServe
    /\ [][NextListener]_vars
    /\ WF_vars(ListenerServe) /\ WF_vars(Register)
    /\ WF_vars(ServeReturns) /\ WF_vars(Shutdown)

\* C28: in every interleaving of a Shutdown call with a concurrently
\* running ListenAndServe or Serve on the same Listener, the serve call
\* eventually returns: a Shutdown that runs before the server has been
\* registered is not lost, leaving a server that keeps serving with no
\* later way of being stopped by that call.
C28_ShutdownEndsServe ==
    (lsn.shutdown # "") ~> (lsn.pc = "returned")


(***************************************************************************)
(* Further properties of the chainload decision                            *)
(***************************************************************************)

\* The host of the configured HTTP base URL is the IPv4 literal ip followed
\* by a port
HostIsLiteralWithPort(ip) ==
    /\ cfg.IPXEBinServerHTTP # NilURL
    /\ cfg.IPXEBinServerHTTP[1].Host = IPString(ip) \o ":8080"

\* C29: under rule R2, when the configured HTTP base URL's host is an IPv4
\* literal followed by a port (for example http://192.168.2.50:8080),
\* next-server is that IPv4 address (192.168.2.50), not 0.0.0.0.
C29_NextServerFromHostPort ==
    \A ip \in HostAddresses :
       (Chainload /\ FirstRule = 2 /\ HostIsLiteralWithPort(ip)) =>
           /\ Len(conn) = 1
           /\ conn[1].data.ServerIPAddr = ip


(***************************************************************************)
(* Properties of the handler as a whole                                    *)
(***************************************************************************)

\* The type of the reply to the packet handled
ReplyType ==
    IF MessageType(pkt) = MessageTypeDiscover THEN MessageTypeOffer
    ELSE MessageTypeAck

\* Every datagram written is an OFFER or an ACK
OnlyOffersAndAcks ==
    \A i \in 1..Len(conn) : SentType(i) \in {MessageTypeOffer, MessageTypeAck}

\* A REQUEST whose record was read is answered with an ACK for the
\* reserved address
RequestAcked ==
    (Answered /\ MessageType(pkt) = MessageTypeRequest) =>
        /\ Len(conn) = 1
        /\ SentType(1) = MessageTypeAck
        /\ conn[1].data.YourIPAddr = backend.d.IPAddress

\* C30 as stated: the handler keeps no per-client state: the reply to a
\* packet is determined only by that packet, the record read for its MAC
\* and the server configuration, so a REQUEST for a known MAC is always
\* answered with an ACK for the reserved address, whether or not a
\* DISCOVER preceded it and whatever requested IP (option 50) or server
\* identifier (option 54) the request carries, and the server never sends
\* a NAK.
C30_Original ==
    /\ Answered =>
          \A sp \in Spans :
             reply = updateMsg(cfg, sp, pkt, backend.d, backend.n,
                               ReplyType, FALSE)
    /\ RequestAcked
    /\ OnlyOffersAndAcks

\* C30: the handler keeps no per-client state: the reply to a packet is
\* determined only by that packet, the record read for its MAC, the server
\* configuration and the trace context of the handler call, so a REQUEST
\* for a known MAC is always answered with an ACK for the reserved
\* address, whether or not a DISCOVER preceded it and whatever requested
\* IP (option 50) or server identifier (option 54) the request carries,
\* and the server never sends a NAK.
C30_Stateless ==
    /\ Answered =>
          /\ reply = updateMsg(cfg, span, pkt, backend.d, backend.n,
                               ReplyType, FALSE)
          /\ Len(conn) = 1
          /\ conn[1].data = ToBytes(reply[1])
    /\ RequestAcked
    /\ OnlyOffersAndAcks

\* A REQUEST no DISCOVER preceded, asking for another address of another
\* server, was answered with an ACK for the reserved address
C30_Witness ==
    /\ Answered /\ seq = 1
    /\ MessageType(pkt) = MessageTypeRequest
    /\ 50 \in DOMAIN pkt.Options
    /\ pkt.Options[50] # backend.d.IPAddress
    /\ OptionServerIdentifier \in DOMAIN pkt.Options
    /\ pkt.Options[OptionServerIdentifier] # cfg.IPAddr
    /\ SentType(1) = MessageTypeAck
    /\ conn[1].data.YourIPAddr = backend.d.IPAddress
    /\ conn[1].data.Options[OptionServerIdentifier] = cfg.IPAddr

\* A REQUEST that followed a DISCOVER was answered with an ACK
C30_WitnessAfterDiscover ==
    /\ Answered /\ seq = 2
    /\ MessageType(pkt) = MessageTypeRequest
    /\ SentType(1) = MessageTypeAck

====
